---- MODULE Spec2Model ----
(***************************************************************************)
(* Model of the orchestration core of format_specifications:               *)
(*   - cache_text_result        (TTL cache around process_text)            *)
(*   - retry_on_connection_error (retry with exponential backoff)          *)
(*   - AITextProcessor.process_text / _generate_section_content            *)
(*   - generate_from_template, _batch, _parallel (generation strategies)   *)
(*   - polish_sections_parallel (worker threads on the shared cache)       *)
(*   - DocumentImageTracker and the template-mode request handlers         *)
(*   - ImageReinsertionStrategy and the builders of the output document    *)
(*   - AIWordFormatter._process_with_ai (reconstruction of a document)     *)
(* Texts are sequences of one-character strings.                           *)
(***************************************************************************)
EXTENDS Integers, Sequences, FiniteSets, TLC

VARIABLES
    now,        \* time.time(), in whole seconds
    wargs,      \* positional arguments (after self) of the retry-wrapped call
    wpolicy,    \* fallback_return of the decorator instance
    retry,      \* locals of retry_on_connection_error.wrapper
    outcomes,   \* what each invocation of the wrapped function did, in order
    cache,      \* the dict of cache_text_result: feature -> <<result, time>>
    call,       \* the call of the cached process_text in progress or last made
    lastMiss,   \* per feature, the last call that computed and stored a result
    ncalls,     \* calls of the cached process_text made so far
    template,   \* the DocumentTemplate of the generation run
    strategy,   \* "sequential", "batch" or "parallel"
    max_workers,\* width of the thread pool of the parallel strategy
    gpc,        \* where the generation run is: idle, walk, pool, done, raised
    todo,       \* sections process_sections has still to visit, in order
    generated_content, \* the dict the run returns: section id -> text
    visited,    \* calls of _generate_section_content finished by the walk
    batch,      \* what the remote call of the batch strategy did
    tasks,      \* the futures of the parallel strategy, by submission order
    items,      \* raw contents given to polish_sections_parallel, in order
    workers,    \* the calls of polish_single_section, one per item
    requests,   \* the template-mode request handlers in progress
    scratch,    \* the directory docx_temp_images next to the uploaded files
    doc_template,       \* the template the output document is built from
    generated_sections, \* the generation result, in insertion order
    extracted_images,   \* the metadata of the extracted images, in order
    loadable,           \* the image paths add_picture can load
    builder,            \* "handler" (handle_template_optimization) or "view"
    next_image,         \* index of the next image to match
    image_insertions,   \* the list image_insertions
    output_doc,         \* the paragraphs of the output document
    bpc,                \* where the builder is: idle, match, saved, raised
    original_paragraphs,   \* the paragraphs of the document read
    image_paths,           \* the extracted media, in the order of the archive
    unloadable,            \* the media add_picture cannot load
    processed_text_blocks, \* the text blocks made of the reply
    new_doc,               \* the paragraphs of the rebuilt document
    para_idx,              \* index of the next original paragraph of the loop
    img_idx,               \* images inserted so far
    text_idx,              \* text blocks written so far
    rpc                    \* where _process_with_ai is: idle, text, rebuild, done

retryVars == <<wargs, wpolicy, retry, outcomes>>

cacheVars == <<cache, call, lastMiss, ncalls>>

genVars ==
    <<template, strategy, max_workers, gpc, todo, generated_content, visited,
      batch, tasks>>

poolVars == <<items, workers>>

\* the variables of the request pipeline, which the generation core leaves
\* alone
reqVars == <<requests, scratch>>

placeVars ==
    <<doc_template, generated_sections, extracted_images, loadable, builder,
      next_image, image_insertions, output_doc, bpc>>

reconVars ==
    <<original_paragraphs, image_paths, unloadable, processed_text_blocks,
      new_doc, para_idx, img_idx, text_idx, rpc>>

docVars == <<placeVars, reconVars>>

pipelineVars == <<poolVars, reqVars, docVars>>

vars ==
    <<now, wargs, wpolicy, retry, outcomes, cache, call, lastMiss, ncalls,
      template, strategy, max_workers, gpc, todo, generated_content, visited,
      batch, tasks, items, workers, requests, scratch, doc_template,
      generated_sections, extracted_images, loadable, builder, next_image,
      image_insertions, output_doc, bpc, original_paragraphs, image_paths,
      unloadable, processed_text_blocks, new_doc, para_idx, img_idx, text_idx,
      rpc>>

(***************************************************************************)
(* Text helpers                                                            *)
(***************************************************************************)
\* the Python expression  c * n
Rep(c, n) == [i \in 1..n |-> c]

IsSpace(c) == c \in {" ", "\n", "\t"}

RECURSIVE LStrip(_)
LStrip(s) == IF s # <<>> /\ IsSpace(Head(s)) THEN LStrip(Tail(s)) ELSE s

RECURSIVE RStrip(_)
RStrip(s) ==
    IF s # <<>> /\ IsSpace(s[Len(s)]) THEN RStrip(SubSeq(s, 1, Len(s) - 1)) ELSE s

\* str.strip(): drop leading and trailing whitespace
Strip(s) == RStrip(LStrip(s))

\* d[key] = value on a Python dict
DictPut(d, key, value) ==
    [g \in DOMAIN d \cup {key} |-> IF g = key THEN value ELSE d[g]]

EmptyDict == [g \in {} |-> <<>>]

(***************************************************************************)
(* retry_on_connection_error                                               *)
(***************************************************************************)
max_retries == 3

backoff_factor == 2

InitialWaitTime == 1

\* requests.exceptions.ConnectionError, requests.exceptions.Timeout
TransientErrors == {"Timeout", "ConnectionError"}

\* exceptions that are not caught by the first except clause
OtherErrors == {"ValueError", "AttributeError", "APIError"}

\* wrapper locals before the first loop iteration
RetryFrame ==
    [status |-> "running", attempt |-> 0, wait_time |-> InitialWaitTime,
     sleeps |-> <<>>, invocations |-> 0, value |-> <<>>, exc |-> "none"]

\* the value returned after the loop is exhausted
FallbackValue(args, fallback_return) ==
    IF fallback_return = "raw_text" /\ args # <<>>
    THEN LET raw_text == args[1] IN Strip(raw_text)
    ELSE <<>>

\* RetryIteration with the backoff multiplication left out
RetryIterationFlatWait(fr, out, args, fallback_return) ==
    IF out.kind = "return"
    THEN [fr EXCEPT !.status = "returned", !.value = out.value,
                    !.invocations = @ + 1]
    ELSE IF out.kind \in TransientErrors
    THEN IF fr.attempt < max_retries - 1
         THEN [fr EXCEPT !.sleeps = Append(@, fr.wait_time),
                         !.attempt = @ + 1,
                         !.invocations = @ + 1]
         ELSE [fr EXCEPT !.status = "returned",
                         !.value = FallbackValue(args, fallback_return),
                         !.attempt = @ + 1,
                         !.invocations = @ + 1]
    ELSE [fr EXCEPT !.status = "raised", !.exc = out.kind,
                    !.invocations = @ + 1]

\* RetryIteration that re-raises the last transient error instead of
\* returning the fallback value
RetryIterationRaiseLast(fr, out, args, fallback_return) ==
    IF out.kind = "return"
    THEN [fr EXCEPT !.status = "returned", !.value = out.value,
                    !.invocations = @ + 1]
    ELSE IF out.kind \in TransientErrors
    THEN IF fr.attempt < max_retries - 1
         THEN [fr EXCEPT !.sleeps = Append(@, fr.wait_time),
                         !.wait_time = @ * backoff_factor,
                         !.attempt = @ + 1,
                         !.invocations = @ + 1]
         ELSE [fr EXCEPT !.status = "raised", !.exc = out.kind,
                         !.attempt = @ + 1,
                         !.invocations = @ + 1]
    ELSE [fr EXCEPT !.status = "raised", !.exc = out.kind,
                    !.invocations = @ + 1]

\* RetryIteration whose first except clause catches every exception
RetryIterationCatchAll(fr, out, args, fallback_return) ==
    IF out.kind = "return"
    THEN [fr EXCEPT !.status = "returned", !.value = out.value,
                    !.invocations = @ + 1]
    ELSE IF fr.attempt < max_retries - 1
         THEN [fr EXCEPT !.sleeps = Append(@, fr.wait_time),
                         !.wait_time = @ * backoff_factor,
                         !.attempt = @ + 1,
                         !.invocations = @ + 1]
         ELSE [fr EXCEPT !.status = "returned",
                         !.value = FallbackValue(args, fallback_return),
                         !.attempt = @ + 1,
                         !.invocations = @ + 1]

\* one iteration of  for attempt in range(max_retries)  with the outcome
\* `out` of func(self, *args, **kwargs)
RetryIteration(fr, out, args, fallback_return) ==
    IF out.kind = "return"
    THEN [fr EXCEPT !.status = "returned", !.value = out.value,
                    !.invocations = @ + 1]
    ELSE IF out.kind \in TransientErrors
    THEN IF fr.attempt < max_retries - 1
         THEN [fr EXCEPT !.sleeps = Append(@, fr.wait_time),
                         !.wait_time = @ * backoff_factor,
                         !.attempt = @ + 1,
                         !.invocations = @ + 1]
         ELSE [fr EXCEPT !.status = "returned",
                         !.value = FallbackValue(args, fallback_return),
                         !.attempt = @ + 1,
                         !.invocations = @ + 1]
    ELSE [fr EXCEPT !.status = "raised", !.exc = out.kind,
                    !.invocations = @ + 1]

\* seconds slept by the iteration that took fr0 to fr1
Slept(fr0, fr1) ==
    IF Len(fr1.sleeps) > Len(fr0.sleeps) THEN fr1.sleeps[Len(fr1.sleeps)] ELSE 0

(***************************************************************************)
(* AITextProcessor.process_text (the undecorated body)                     *)
(***************************************************************************)
request_timeout == 15

max_text_length == 1000

\* message.content of a reply of the completion service
ReplyTexts == {<<" ", "P", " ">>, <<" ">>}

\* exceptions of self.client.chat.completions.create and of reading its reply
RemoteErrors == {"Timeout", "ConnectionError", "AttributeError", "APIError"}

\* what one remote completion call can do: a reply with a content (none: the
\* content is None), or an exception
RemoteOutcomes ==
    {[kind |-> "reply", content |-> c, none |-> FALSE] : c \in ReplyTexts} \cup
    {[kind |-> "reply", content |-> <<>>, none |-> TRUE]} \cup
    {[kind |-> k, content |-> <<>>, none |-> FALSE] : k \in RemoteErrors}

\* seconds a remote call takes: request_timeout for a timeout, ReplySeconds
\* for anything else
ReplySeconds == 1

Duration(remote) ==
    IF remote.kind = "Timeout" THEN request_timeout ELSE ReplySeconds

\* process_text reaches the remote call (neither blank nor over-long)
ProcessTextCallsRemote(raw_text) ==
    /\ raw_text # <<>>
    /\ Strip(raw_text) # <<>>
    /\ Len(Strip(raw_text)) <= max_text_length

\* the body of process_text, given what its remote call does
process_text(raw_text, remote) ==
    LET raw_text_strip == Strip(raw_text)
    IN  IF raw_text = <<>> \/ raw_text_strip = <<>>
        THEN [kind |-> "return", value |-> <<>>]
        ELSE IF Len(raw_text_strip) > max_text_length
        THEN [kind |-> "return", value |-> raw_text_strip]
        ELSE IF remote.kind = "reply"
        THEN LET raw_content == IF remote.none THEN <<>> ELSE remote.content
                 processed_text == Strip(raw_content)
             IN  IF processed_text = <<>>
                 THEN [kind |-> "return", value |-> raw_text_strip]
                 ELSE [kind |-> "return", value |-> processed_text]
        ELSE IF remote.kind \in
                    {"Timeout", "ConnectionError", "ValueError", "AttributeError"}
        THEN [kind |-> "return", value |-> raw_text_strip]
        ELSE [kind |-> remote.kind, value |-> <<>>]

(***************************************************************************)
(* cache_text_result                                                       *)
(***************************************************************************)
expire_seconds == 30

FeaturePrefix == 100

\* text_feature = f"{len(raw_text_strip)}_{raw_text_strip[:100]}": the digits
\* of the length end at the first "_", so the string and the pair
\* <<length, prefix>> determine each other
text_feature(raw_text) ==
    LET raw_text_strip == IF raw_text # <<>> THEN Strip(raw_text) ELSE <<>>
        n == Len(raw_text_strip)
    IN  <<n, SubSeq(raw_text_strip, 1, IF n < FeaturePrefix THEN n ELSE FeaturePrefix)>>

\* CacheLive with <= in place of <
CacheLiveInclusive(c, feature, current_time) ==
    /\ feature \in DOMAIN c
    /\ current_time - c[feature][2] <= expire_seconds

\* text_feature in cache and current_time - cached_time < expire_seconds
CacheLive(c, feature, current_time) ==
    /\ feature \in DOMAIN c
    /\ current_time - c[feature][2] < expire_seconds

\* CacheSweep with the comparison inverted: it deletes the entries that are
\* not yet expire_seconds old
CacheSweepInverted(c, current_time) ==
    [g \in {h \in DOMAIN c : ~(current_time - c[h][2] < expire_seconds)} |-> c[g]]

\* del cache[feature] for every feature with
\* current_time - cache[feature][1] > expire_seconds
CacheSweep(c, current_time) ==
    [g \in {h \in DOMAIN c : ~(current_time - c[h][2] > expire_seconds)} |-> c[g]]

\* a wrapper that returns the result without storing it
StoreEntryNowhere(c, feature, result, current_time) == c

\* cache[text_feature] = (result, current_time), whatever the result is
StoreEntry(c, feature, result, current_time) ==
    DictPut(c, feature, <<result, current_time>>)

\* a key that holds the instance as well as the feature of the text
cache_key_per_instance(self, raw_text) == <<self.name, text_feature(raw_text)>>

\* the key under which the wrapper looks up and stores: the feature of the
\* text, whatever the instance (and its tone) the method is called on; the
\* dict is the one of the decorated method, shared by every instance
cache_key(self, raw_text) == text_feature(raw_text)

NoProcessor == [name |-> "", tone |-> ""]

NoCall ==
    [state |-> "none", self |-> NoProcessor, text |-> <<>>,
     feature |-> <<0, <<>>>>, current_time |-> 0,
     hit |-> FALSE, result |-> <<>>, invoked |-> 0, remotes |-> <<>>,
     prev |-> [some |-> FALSE, self |-> NoProcessor, time |-> 0,
               result |-> <<>>, text |-> <<>>]]

(***************************************************************************)
(* TemplateSection trees and the per-section generation call               *)
(***************************************************************************)
SectionIds == <<"a", "b", "c", "d", "e", "f">>

\* TemplateSection(id, title, ..., subsections)
Section(id, subsections) ==
    [id |-> id, title |-> <<"T", id>>, subsections |-> subsections]

RECURSIVE Flatten(_)
\* collect_sections: a section, then its subsections, then its siblings
Flatten(sections) ==
    IF sections = <<>>
    THEN <<>>
    ELSE <<Head(sections)>> \o Flatten(Head(sections).subsections)
                            \o Flatten(Tail(sections))

MinContentLength == 50

\* _generate_section_content without its test on the length of the content
generate_section_content_any_length(section, remote) ==
    IF remote.kind = "reply"
    THEN IF remote.none
         THEN [kind |-> "AttributeError", value |-> <<>>]
         ELSE [kind |-> "return", value |-> Strip(remote.content)]
    ELSE [kind |-> remote.kind, value |-> <<>>]

\* the body of _generate_section_content, given what its remote call does
generate_section_content(section, remote) ==
    IF remote.kind = "reply"
    THEN IF remote.none
         THEN [kind |-> "AttributeError", value |-> <<>>]
         ELSE LET content == Strip(remote.content)
              IN  IF Len(content) < MinContentLength
                  THEN [kind |-> "return", value |-> <<>>]
                  ELSE [kind |-> "return", value |-> content]
    ELSE [kind |-> remote.kind, value |-> <<>>]

\* replies to the generation prompt of the p-th section of the tree: one of
\* exactly MinContentLength characters, one that long only with its padding
GenReplies(p) ==
    {Rep(ToString(p), MinContentLength),
     <<" ">> \o Rep(ToString(p), MinContentLength - 1) \o <<" ">>}

GenRemoteOutcomes(p) ==
    {[kind |-> "reply", content |-> c, none |-> FALSE] : c \in GenReplies(p)} \cup
    {[kind |-> "reply", content |-> <<>>, none |-> TRUE]} \cup
    {[kind |-> k, content |-> <<>>, none |-> FALSE] : k \in TransientErrors}

(***************************************************************************)
(* generate_from_template_batch                                            *)
(***************************************************************************)
\* the block of a well-formed batch reply that belongs to the p-th section
Block(p) == <<"B", ToString(p)>>

RECURSIVE BatchReplyFrom(_, _)
\* "title, content, blank line" for each section from the p-th on
BatchReplyFrom(flat, p) ==
    IF p > Len(flat)
    THEN <<>>
    ELSE flat[p].title \o <<"\n">> \o Block(p) \o <<"\n", "\n">>
                       \o BatchReplyFrom(flat, p + 1)

BatchRemoteOutcomes(sections) ==
    {[kind |-> "reply", content |-> BatchReplyFrom(Flatten(sections), 1),
      none |-> FALSE],
     [kind |-> "reply", content |-> <<>>, none |-> TRUE]} \cup
    {[kind |-> k, content |-> <<>>, none |-> FALSE] :
        k \in TransientErrors \cup {"APIError"}}

NoBatch == [kind |-> "none", content |-> <<>>, none |-> FALSE]

\* the list current_content of generate_from_template_batch: created empty
\* and never appended to
current_content == <<>>

\* "\n".join(lines)
RECURSIVE Join(_)
Join(lines) ==
    IF lines = <<>> THEN <<>>
    ELSE IF Len(lines) = 1 THEN lines[1]
    ELSE lines[1] \o <<"\n">> \o Join(Tail(lines))

RECURSIVE assign_sections(_, _)
RECURSIVE AssignLoop(_, _, _, _)
\* the for loop of assign_sections from its i-th section on.  cur is the
\* function's local current_section (local because line 350 assigns it):
\* reading it before that assignment raises UnboundLocalError.
AssignLoop(sections, i, cur, content) ==
    IF ~cur.bound
    THEN [raised |-> "UnboundLocalError", content |-> content]
    ELSE IF i > Len(sections)
    THEN [raised |-> "none",
          content |-> IF current_content # <<>>
                      THEN DictPut(content, cur.section.id, Join(current_content))
                      ELSE content]
    ELSE LET stored == IF current_content # <<>>
                       THEN DictPut(content, cur.section.id, Join(current_content))
                       ELSE content
             section == sections[i]
             inner == IF section.subsections # <<>>
                      THEN assign_sections(section.subsections, stored)
                      ELSE [raised |-> "none", content |-> stored]
         IN  IF inner.raised # "none"
             THEN inner
             ELSE AssignLoop(sections, i + 1,
                             [bound |-> TRUE, section |-> section], inner.content)

\* a call of assign_sections: its local current_section starts unbound, and
\* the first thing the body does (in the loop, or after an empty loop) is to
\* read it
assign_sections(sections, content) ==
    AssignLoop(sections, 1, [bound |-> FALSE, section |-> Section("", <<>>)], content)

\* the try block of generate_from_template_batch, given what its remote call
\* does: the dict it returns, or the exception its except clause catches
BatchTry(sections, remote) ==
    IF remote.kind # "reply"
    THEN [raised |-> remote.kind, content |-> EmptyDict]
    ELSE IF remote.none
    THEN [raised |-> "AttributeError", content |-> EmptyDict]
    ELSE assign_sections(sections, EmptyDict)

(***************************************************************************)
(* generate_from_template_parallel                                         *)
(***************************************************************************)
DefaultMaxWorkers == 5

\* a future that was submitted and has not started
QueuedTask ==
    [state |-> "queued", frame |-> RetryFrame,
     result |-> [section_id |-> "", content |-> <<>>, title |-> <<>>,
                 error |-> "None"]]

\* the tuple process_single_section returns when the wrapper around
\* _generate_section_content ended as in frame fr
process_single_section(section, fr) ==
    IF fr.status = "raised"
    THEN [section_id |-> section.id, content |-> <<>>, title |-> section.title,
          error |-> fr.exc]
    ELSE IF fr.value # <<>>
    THEN [section_id |-> section.id, content |-> fr.value,
          title |-> section.title, error |-> "None"]
    ELSE [section_id |-> section.id, content |-> <<>>, title |-> section.title,
          error |-> "empty content"]

\* CollectResult without the  if error  test
CollectResultUnchecked(content, result) ==
    DictPut(content, result.section_id, result.content)

\* the body of  for future in as_completed(...)  for one future's result
CollectResult(content, result) ==
    IF result.error # "None" /\ result.error # ""
    THEN content
    ELSE IF result.content # <<>>
    THEN DictPut(content, result.section_id, result.content)
    ELSE content

(***************************************************************************)
(* DocumentImageTracker and the scratch directory.  The directory is       *)
(* os.path.dirname(docx_path)/docx_temp_images; the handlers save every    *)
(* upload with tempfile.NamedTemporaryFile, so docx_path is always in the  *)
(* temporary directory of the process and the scratch directory is one     *)
(* and the same for every request.  A file of the directory is a pair      *)
(* <<name, counter>> (name, then name_1, name_2, ...) and holds the run    *)
(* that wrote it.                                                          *)
(***************************************************************************)
\* the members word/media/* of an upload with n images: image1 .. imagen
MediaNames(n) == [k \in 1..n |-> k]

\* extract_path of _extract_images_from_zipfile for a file name after
\* counter collisions
ExtractPath(name, counter) == <<name, counter>>

\* os.makedirs(self.temp_dir, exist_ok=True)
Makedirs(fs) == [fs EXCEPT !.exists = TRUE]

\* open(extract_path, 'wb') and write: creates or truncates the file
WriteFile(fs, path, run) == [fs EXCEPT !.files = DictPut(@, path, run)]

\* cleanup that lets the exception of shutil.rmtree through
TrackerCleanupRaising(temp_dir_set, fs, rmtree_ok) ==
    IF temp_dir_set /\ fs.exists
    THEN IF rmtree_ok
         THEN [fs |-> [exists |-> FALSE, files |-> EmptyDict], result |-> "removed",
               logged |-> FALSE, raised |-> FALSE]
         ELSE [fs |-> fs, result |-> "failed", logged |-> FALSE, raised |-> TRUE]
    ELSE [fs |-> fs, result |-> "nothing", logged |-> FALSE, raised |-> FALSE]

\* DocumentImageTracker.cleanup: shutil.rmtree of the directory if temp_dir
\* is set and the directory exists; an exception of rmtree is logged
TrackerCleanup(temp_dir_set, fs, rmtree_ok) ==
    IF temp_dir_set /\ fs.exists
    THEN IF rmtree_ok
         THEN [fs |-> [exists |-> FALSE, files |-> EmptyDict], result |-> "removed",
               logged |-> FALSE, raised |-> FALSE]
         ELSE [fs |-> fs, result |-> "failed", logged |-> TRUE, raised |-> FALSE]
    ELSE [fs |-> fs, result |-> "nothing", logged |-> FALSE, raised |-> FALSE]

\* img_run.add_picture(image_path): the bytes at the path now, if any
ReadPicture(fs, path) ==
    IF fs.exists /\ path \in DOMAIN fs.files
    THEN [loaded |-> TRUE, of |-> fs.files[path]]
    ELSE [loaded |-> FALSE, of |-> 0]

(***************************************************************************)
(* ImageReinsertionStrategy: where an extracted image goes                 *)
(***************************************************************************)
\* str.lower() on the characters the texts are made of
LowerChar(c) ==
    CASE c = "A" -> "a"
      [] c = "B" -> "b"
      [] c = "K" -> "k"
      [] OTHER -> c

Lower(s) == [i \in 1..Len(s) |-> LowerChar(s[i])]

\* the Python expression  sub in text  on strings
Contains(text, sub) ==
    \E i \in 1..(Len(text) + 1) :
        /\ i + Len(sub) - 1 <= Len(text)
        /\ SubSeq(text, i, i + Len(sub) - 1) = sub

RECURSIVE SplitFrom(_, _)
\* str.split(): the maximal runs of non-whitespace characters; word is the
\* run being read
SplitFrom(s, word) ==
    IF s = <<>>
    THEN IF word = <<>> THEN <<>> ELSE <<word>>
    ELSE IF IsSpace(Head(s))
         THEN (IF word = <<>> THEN <<>> ELSE <<word>>) \o SplitFrom(Tail(s), <<>>)
         ELSE SplitFrom(Tail(s), Append(word, Head(s)))

Split(s) == SplitFrom(s, <<>>)

\* the scores are kept in tenths: 0.5 for the title in the preceding text,
\* 0.5 for the title in the following text, 0.1 for each keyword.  The sums
\* of the floating-point values compare as these integers do as long as
\* fewer than five keywords are counted.
TitleScore == 5

KeywordScore == 1

RECURSIVE KeywordHits(_, _)
\* the for loop over section.requirements.split()
KeywordHits(keywords, paragraph_text) ==
    IF keywords = <<>>
    THEN 0
    ELSE (IF Contains(Lower(paragraph_text), Lower(Head(keywords)))
          THEN KeywordScore ELSE 0)
         + KeywordHits(Tail(keywords), paragraph_text)

\* a resolver that scores every section alike
calculate_relevance_score_flat(image_metadata, section) == 0

calculate_relevance_score(image_metadata, section) ==
    (IF Contains(Lower(image_metadata.preceding_text), Lower(section.title))
     THEN TitleScore ELSE 0)
    + (IF Contains(Lower(image_metadata.following_text), Lower(section.title))
       THEN TitleScore ELSE 0)
    + (IF section.requirements # <<>>
       THEN KeywordHits(Split(section.requirements), image_metadata.paragraph_text)
       ELSE 0)

\* Python's None
None == "None"

RECURSIVE BestMatch(_, _, _)
\* the scoring loop of find_best_insertion_position over template.sections:
\* best is [section, score], replaced only by a strictly higher score
BestMatch(image_metadata, sections, best) ==
    IF sections = <<>>
    THEN best
    ELSE LET score == calculate_relevance_score(image_metadata, Head(sections))
         IN  BestMatch(image_metadata, Tail(sections),
                       IF score > best.score
                       THEN [section |-> Head(sections).id, score |-> score]
                       ELSE best)

\* a generation result is a dict in insertion order: a sequence of
\* [id, content] with distinct ids
DictGet(items_, key, default) ==
    IF \E i \in DOMAIN items_ : items_[i].id = key
    THEN items_[CHOOSE i \in DOMAIN items_ : items_[i].id = key].content
    ELSE default

HasKey(items_, key) == \E i \in DOMAIN items_ : items_[i].id = key

SubstantialLength == 100

\* Fallback 1: the first item of the generation result with more than
\* SubstantialLength characters after strip()
FirstSubstantial(generated) ==
    LET hits == {i \in DOMAIN generated :
                    Len(Strip(generated[i].content)) > SubstantialLength}
    IN  IF hits = {} THEN None
        ELSE generated[CHOOSE i \in hits : \A j \in hits : i <= j].id

\* a resolver whose second fallback takes the first key
LastKeyAsFirst(generated) == generated[1].id

\* Fallback 2: list(generated.keys())[-1]
LastKey(generated) == generated[Len(generated)].id

\* a resolver that gives up when the generation result is empty
LastResortNone(template_) == None

\* Last resort: template.sections[0].id
LastResort(template_) ==
    IF template_.sections # <<>> THEN template_.sections[1].id ELSE None

\* the fallback chain
Fallback(generated, template_) ==
    IF FirstSubstantial(generated) # None
    THEN FirstSubstantial(generated)
    ELSE IF generated # <<>>
         THEN LastKey(generated)
         ELSE LastResort(template_)

find_best_insertion_position(image_metadata, generated, template_) ==
    LET best == BestMatch(image_metadata, template_.sections,
                          [section |-> None, score |-> 0])
    IN  IF best.section # None /\ best.score > 0
        THEN [section_id |-> best.section, position |-> "end"]
        ELSE [section_id |-> Fallback(generated, template_),
              position |-> "end"]
(***************************************************************************)
(* The two builders of the output document of the template pipeline        *)
(***************************************************************************)
Heading(title, level) == [kind |-> "heading", of |-> title, level |-> level]

Paragraph(text) == [kind |-> "text", of |-> text, level |-> 0]

\* img_para with the picture added, or with the text put in its place when
\* add_picture raised
ImageParagraph(image_path, files) ==
    [kind |-> IF image_path \in files THEN "image" ELSE "image_failed",
     of |-> image_path, level |-> 0]

RECURSIVE SelectImages(_, _)
\* [img for img in image_insertions if img['section_id'] == section.id]
SelectImages(insertions, id) ==
    IF insertions = <<>>
    THEN <<>>
    ELSE (IF Head(insertions).section_id = id THEN <<Head(insertions)>> ELSE <<>>)
         \o SelectImages(Tail(insertions), id)

ImageParagraphs(insertions, id, files) ==
    LET section_images == SelectImages(insertions, id)
    IN  [k \in 1..Len(section_images) |->
            ImageParagraph(section_images[k].image_path, files)]

RECURSIVE add_section(_, _, _, _, _)
RECURSIVE AddSections(_, _, _, _, _)
\* add_section of _build_document_from_template: the paragraphs it adds
add_section(section, level, generated, insertions, files) ==
    LET content == DictGet(generated, section.id, <<>>)
    IN  (IF content # <<>> /\ Strip(content) # <<>>
         THEN <<Heading(section.title, IF level < 9 THEN level ELSE 9),
                Paragraph(content)>>
              \o ImageParagraphs(insertions, section.id, files)
         ELSE <<>>)
        \o AddSections(section.subsections, level + 1, generated, insertions,
                       files)

\* for subsection in section.subsections: add_section(subsection, level + 1)
AddSections(sections, level, generated, insertions, files) ==
    IF sections = <<>>
    THEN <<>>
    ELSE add_section(Head(sections), level, generated, insertions, files)
         \o AddSections(Tail(sections), level, generated, insertions, files)

RECURSIVE TopLevel(_, _, _, _)
\* the loop over template.sections of _build_document_from_template
TopLevel(sections, generated, insertions, files) ==
    IF sections = <<>>
    THEN <<>>
    ELSE (IF ~Head(sections).is_optional
             \/ DictGet(generated, Head(sections).id, <<>>) # <<>>
          THEN add_section(Head(sections), 1, generated, insertions, files)
          ELSE <<>>)
         \o TopLevel(Tail(sections), generated, insertions, files)

\* the title, the line with the time and the template, the separator
DocumentHead == <<Heading(<<"name">>, 0), Paragraph(<<"info">>), Paragraph(<<"_">>)>>

build_document_from_template(template_, generated, insertions, files) ==
    DocumentHead \o TopLevel(template_.sections, generated, insertions, files)

\* the placeholder patterns of is_meaningful_content
Placeholders ==
    {<<"[", "dai", "bu", "chong", "]">>, <<"[", "dai", "tian", "xie", "]">>,
     <<"[", "dai", "wan", "shan", "]">>,
     <<"dai", "bu", "chong">>, <<"dai", "tian", "xie">>, <<"dai", "wan", "shan">>,
     <<"qing", "bu", "chong">>, <<"qing", "tian", "xie">>, <<"qing", "wan", "shan">>}

RECURSIVE SumLen(_)
SumLen(S) ==
    IF S = {} THEN 0
    ELSE LET p == CHOOSE p \in S : TRUE IN Len(p) + SumLen(S \ {p})

MinMeaningfulLength == 15

\* more than 30% of the characters
MostlyPlaceholders(chars, length) == 10 * chars > 3 * length

is_meaningful_content(content_) ==
    LET content == Strip(content_)
        found == {p \in Placeholders : Contains(content, p)}
    IN  /\ content_ # <<>>
        /\ Len(content) >= MinMeaningfulLength
        /\ ~(found # {} /\ MostlyPlaceholders(SumLen(found), Len(content)))

RECURSIVE SubsectionsWithContent(_, _)
SubsectionsWithContent(subsections, generated) ==
    IF subsections = <<>>
    THEN <<>>
    ELSE (IF HasKey(generated, Head(subsections).id)
             /\ is_meaningful_content(DictGet(generated, Head(subsections).id, <<>>))
          THEN <<Head(subsections)>> ELSE <<>>)
         \o SubsectionsWithContent(Tail(subsections), generated)

RECURSIVE HandlerSections(_, _, _)
\* the loop over template.sections of handle_template_optimization from the
\* sections given on; doc is the document so far.  Pt is a local name of
\* the handler, bound only by the import inside the loop over the images of
\* a section (line 509): the first Pt(21.0), at line 497 or 539, is
\* evaluated before any pass of that loop and raises UnboundLocalError, so
\* the insertion of the images is never reached.
HandlerSections(sections, generated, doc) ==
    IF sections = <<>>
    THEN [raised |-> "none", doc |-> doc]
    ELSE LET section == Head(sections)
             section_has_content ==
                 /\ HasKey(generated, section.id)
                 /\ is_meaningful_content(DictGet(generated, section.id, <<>>))
             subsections_with_content ==
                 SubsectionsWithContent(section.subsections, generated)
         IN  IF section_has_content
             THEN [raised |-> "UnboundLocalError",
                   doc |-> doc \o <<Heading(section.title, 1),
                                    Paragraph(DictGet(generated, section.id, <<>>))>>]
             ELSE IF subsections_with_content # <<>>
                  THEN [raised |-> "UnboundLocalError",
                        doc |-> doc \o <<Heading(section.title, 1),
                                         Heading(subsections_with_content[1].title, 2),
                                         Paragraph(DictGet(generated,
                                             subsections_with_content[1].id, <<>>))>>]
                  ELSE HandlerSections(Tail(sections), generated, doc)

\* the document of handle_template_optimization: the title, then the sections
handler_document(template_, generated) ==
    HandlerSections(template_.sections, generated, <<Heading(<<"name">>, 0)>>)
(***************************************************************************)
(* AIWordFormatter._process_with_ai: the document rebuilt around the text  *)
(* blocks of the reply                                                     *)
(***************************************************************************)
\* a paragraph of the document: has_image is the test on its XML, image the
\* media file its drawing shows (0 without one)
OriginalParagraph(has_image, text, image) ==
    [has_image |-> has_image, text |-> text, image |-> image]

\* positions (from 1) of the paragraphs with a drawing
ImageParaIndices(paragraphs) ==
    {i \in DOMAIN paragraphs : paragraphs[i].has_image}

\* positions of the other paragraphs with text left after strip()
TextParaIndices(paragraphs) ==
    {i \in DOMAIN paragraphs :
        ~paragraphs[i].has_image /\ Strip(paragraphs[i].text) # <<>>}

RECURSIVE PureTexts(_)
PureTexts(paragraphs) ==
    IF paragraphs = <<>>
    THEN <<>>
    ELSE (IF ~Head(paragraphs).has_image /\ Strip(Head(paragraphs).text) # <<>>
          THEN <<Strip(Head(paragraphs).text)>> ELSE <<>>)
         \o PureTexts(Tail(paragraphs))

RECURSIVE SplitParagraphs(_, _)
\* processed_text.split("\n\n"); piece is the part being read
SplitParagraphs(s, piece) ==
    IF s = <<>>
    THEN <<piece>>
    ELSE IF Len(s) >= 2 /\ s[1] = "\n" /\ s[2] = "\n"
         THEN <<piece>> \o SplitParagraphs(SubSeq(s, 3, Len(s)), <<>>)
         ELSE SplitParagraphs(Tail(s), Append(piece, Head(s)))

RECURSIVE StrippedNonEmpty(_)
\* [p.strip() for p in parts if p.strip()]
StrippedNonEmpty(parts) ==
    IF parts = <<>>
    THEN <<>>
    ELSE (IF Strip(Head(parts)) # <<>> THEN <<Strip(Head(parts))>> ELSE <<>>)
         \o StrippedNonEmpty(Tail(parts))

\* the text blocks, given what process_text did
TextBlocks(pure_texts, outcome) ==
    IF pure_texts = <<>>
    THEN <<>>
    ELSE IF outcome.kind # "return"
         THEN pure_texts
         ELSE IF outcome.value = <<>> \/ Strip(outcome.value) = <<>>
              THEN pure_texts
              ELSE StrippedNonEmpty(SplitParagraphs(outcome.value, <<>>))

RebuiltParagraph(kind, of) == [kind |-> kind, of |-> of]

\* one pass of the loop that rebuilds the document: the paragraph added for
\* the idx-th original paragraph, and the two counters after it
Rebuild(idx, paragraphs, paths, broken, blocks, img, text) ==
    IF idx \in ImageParaIndices(paragraphs) /\ img < Len(paths)
    THEN IF paths[img + 1] \notin broken
         THEN [para |-> RebuiltParagraph("image", paths[img + 1]),
               img_idx |-> img + 1, text_idx |-> text]
         ELSE [para |-> RebuiltParagraph("image_failed", <<"[", "pic", "]">>),
               img_idx |-> img, text_idx |-> text]
    ELSE IF idx \in TextParaIndices(paragraphs) /\ text < Len(blocks)
         THEN [para |-> RebuiltParagraph("text", blocks[text + 1]),
               img_idx |-> img, text_idx |-> text + 1]
         ELSE [para |-> RebuiltParagraph("blank", <<>>),
               img_idx |-> img, text_idx |-> text]

\* a reconstruction that drops the blocks left over
SurplusDiscarded(blocks, text) == <<>>

\* the while loop after the rebuilding: the blocks not yet written
Surplus(blocks, text) ==
    [k \in 1..(Len(blocks) - text) |-> RebuiltParagraph("text", blocks[text + k])]
(***************************************************************************)
(* DocumentImageTracker: the context recorded with an extracted image      *)
(***************************************************************************)
\* the window argument of _get_preceding_text and _get_following_text
DefaultWindow == 3

\* the Python slice s[a:b], indices from 0
Slice(s, a, b) == SubSeq(s, a + 1, b)

\* the texts of paragraphs
TextsOfParagraphs(paragraphs) == [i \in DOMAIN paragraphs |-> paragraphs[i].text]

RECURSIVE JoinSpace(_)
\* ' '.join(texts)
JoinSpace(texts) ==
    IF texts = <<>> THEN <<>>
    ELSE IF Len(texts) = 1 THEN texts[1]
    ELSE texts[1] \o <<" ">> \o JoinSpace(Tail(texts))

\* a context of the whole document before the image
get_preceding_text_all(paragraphs, current_idx, window) ==
    JoinSpace(StrippedNonEmpty(TextsOfParagraphs(Slice(paragraphs, 0, current_idx))))

\* _get_preceding_text(doc, current_idx, window); current_idx counts from 0
get_preceding_text(paragraphs, current_idx, window) ==
    LET start_idx == IF current_idx - window > 0 THEN current_idx - window ELSE 0
    IN  JoinSpace(StrippedNonEmpty(
            TextsOfParagraphs(Slice(paragraphs, start_idx, current_idx))))

\* _get_following_text(doc, current_idx, window)
get_following_text(paragraphs, current_idx, window) ==
    LET end_idx == IF Len(paragraphs) < current_idx + window + 1
                   THEN Len(paragraphs) ELSE current_idx + window + 1
    IN  JoinSpace(StrippedNonEmpty(
            TextsOfParagraphs(Slice(paragraphs, current_idx + 1, end_idx))))

\* the entry appended to self.images for the image paragraph at idx
ImageRecord(paragraphs, idx, image_path) ==
    [image_path |-> image_path,
     paragraph_index |-> idx,
     preceding_text |-> get_preceding_text(paragraphs, idx, DefaultWindow),
     following_text |-> get_following_text(paragraphs, idx, DefaultWindow),
     paragraph_text |-> Strip(paragraphs[idx + 1].text)]
(***************************************************************************)
(* Components at rest                                                      *)
(***************************************************************************)
RetryIdle ==
    /\ wargs = <<>>
    /\ wpolicy = ""
    /\ retry = RetryFrame
    /\ outcomes = <<>>

CacheIdle ==
    /\ cache = EmptyDict
    /\ call = NoCall
    /\ lastMiss = EmptyDict
    /\ ncalls = 0

GenIdle ==
    /\ template = [sections |-> <<>>]
    /\ strategy = "none"
    /\ max_workers = 0
    /\ gpc = "idle"
    /\ todo = <<>>
    /\ generated_content = EmptyDict
    /\ visited = <<>>
    /\ batch = NoBatch
    /\ tasks = <<>>

PoolIdle ==
    /\ items = <<>>
    /\ workers = <<>>

ReqIdle ==
    /\ requests = <<>>
    /\ scratch = [exists |-> FALSE, files |-> EmptyDict]

PlaceIdle ==
    /\ doc_template = [sections |-> <<>>]
    /\ generated_sections = <<>>
    /\ extracted_images = <<>>
    /\ loadable = {}
    /\ builder = "none"
    /\ next_image = 1
    /\ image_insertions = <<>>
    /\ output_doc = <<>>
    /\ bpc = "idle"

ReconIdle ==
    /\ original_paragraphs = <<>>
    /\ image_paths = <<>>
    /\ unloadable = {}
    /\ processed_text_blocks = <<>>
    /\ new_doc = <<>>
    /\ para_idx = 0
    /\ img_idx = 0
    /\ text_idx = 0
    /\ rpc = "idle"

DocIdle == PlaceIdle /\ ReconIdle

PipelineIdle == PoolIdle /\ ReqIdle /\ DocIdle

(***************************************************************************)
(* SpecRetry: one call of a wrapped function whose invocations time out,   *)
(* lose the connection, raise something else, or return.                   *)
(***************************************************************************)
Padding == 1

\* raw texts handed to the wrapped call: plain, padded with up to Padding
\* blanks on either side, blank, empty
RetryTexts ==
    {<<"a", "b">>, <<>>, <<" ">>} \cup
    {Rep(" ", l) \o <<"a", "b">> \o Rep(" ", r) : l \in 0..Padding, r \in 0..Padding}

FuncValues == {<<"o", "k">>, <<>>}

FuncOutcomes ==
    {[kind |-> "return", value |-> v] : v \in FuncValues} \cup
    {[kind |-> k, value |-> <<>>] : k \in TransientErrors \cup OtherErrors}

RetryInit ==
    /\ now = 0
    /\ wargs \in {<<t>> : t \in RetryTexts}
    /\ wpolicy \in {"raw_text", ""}
    /\ retry = RetryFrame
    /\ outcomes = <<>>
    /\ CacheIdle
    /\ GenIdle
    /\ PipelineIdle

RetryAttempt ==
    /\ retry.status = "running"
    /\ \E out \in FuncOutcomes :
        LET fr == RetryIteration(retry, out, wargs, wpolicy)
        IN  /\ retry' = fr
            /\ outcomes' = Append(outcomes, out)
            /\ now' = now + Slept(retry, fr)
    /\ UNCHANGED <<wargs, wpolicy, cacheVars, genVars>>
    /\ UNCHANGED pipelineVars

RetryNext == RetryAttempt

SpecRetry == RetryInit /\ [][RetryNext]_vars

(***************************************************************************)
(* SpecCache: one thread makes up to MaxCalls calls of the cached          *)
(* process_text, each some seconds after the previous one returned.        *)
(***************************************************************************)
MaxCalls == 3

\* raw texts: two of one feature that differ in their padding and after
\* their first FeaturePrefix characters, and one over the limit of
\* process_text
CacheTexts ==
    {Rep("x", FeaturePrefix) \o <<"a">>,
     Rep(" ", Padding) \o Rep("x", FeaturePrefix) \o <<"b">> \o Rep(" ", Padding),
     Rep("y", max_text_length + 1)}

\* the AITextProcessor instances that call process_text: two of one tone and
\* one of another
Processors ==
    <<[name |-> "A", tone |-> "direct"],
      [name |-> "B", tone |-> "direct"],
      [name |-> "C", tone |-> "rigorous"]>>

\* the instance the n-th call is made on: the instances take turns
ProcessorOf(n) == Processors[((n - 1) % Len(Processors)) + 1]

\* seconds between the return of one call and the start of the next
Delays == {1, expire_seconds - 2, expire_seconds - 1, expire_seconds}

CacheInit ==
    /\ now = 0
    /\ RetryIdle
    /\ CacheIdle
    /\ GenIdle
    /\ PipelineIdle

\* wrapper of cache_text_result up to the lookup: a hit returns the cached
\* result, a miss enters the wrapped function
CallProcessText ==
    /\ call.state # "computing"
    /\ ncalls < MaxCalls
    /\ \E raw_text \in CacheTexts, d \in Delays :
        LET self == ProcessorOf(ncalls + 1)
            current_time == now + d
            feature == cache_key(self, raw_text)
            started ==
                [NoCall EXCEPT !.self = self, !.text = raw_text,
                               !.feature = feature,
                               !.current_time = current_time,
                               !.prev = IF text_feature(raw_text) \in DOMAIN lastMiss
                                        THEN lastMiss[text_feature(raw_text)]
                                        ELSE NoCall.prev]
        IN  /\ now' = current_time
            /\ ncalls' = ncalls + 1
            /\ IF CacheLive(cache, feature, current_time)
               THEN /\ call' = [started EXCEPT !.state = "returned", !.hit = TRUE,
                                               !.result = cache[feature][1]]
                    /\ UNCHANGED retryVars
               ELSE /\ call' = [started EXCEPT !.state = "computing", !.invoked = 1]
                    /\ wargs' = <<raw_text>>
                    /\ wpolicy' = "raw_text"
                    /\ retry' = RetryFrame
                    /\ outcomes' = <<>>
    /\ UNCHANGED <<cache, lastMiss, genVars>>
    /\ UNCHANGED pipelineVars

\* one iteration of the retry wrapper around the body of process_text; when
\* the wrapper returns, the cache wrapper stores the result and sweeps
ProcessTextAttempt ==
    /\ call.state = "computing"
    /\ \E remote \in RemoteOutcomes :
        LET used == ProcessTextCallsRemote(call.text)
            out == process_text(call.text, remote)
            fr == RetryIteration(retry, out, wargs, wpolicy)
            made == IF used THEN Append(call.remotes, remote.kind) ELSE call.remotes
        IN  /\ retry' = fr
            /\ outcomes' = Append(outcomes, out)
            /\ now' = now + (IF used THEN Duration(remote) ELSE 0) + Slept(retry, fr)
            /\ IF fr.status = "running"
               THEN /\ call' = [call EXCEPT !.remotes = made]
                    /\ UNCHANGED <<cache, lastMiss>>
               ELSE IF fr.status = "returned"
               THEN /\ cache' = CacheSweep(StoreEntry(cache, call.feature, fr.value,
                                                      call.current_time),
                                           call.current_time)
                    /\ call' = [call EXCEPT !.state = "returned", !.remotes = made,
                                            !.result = fr.value]
                    /\ lastMiss' = DictPut(lastMiss, text_feature(call.text),
                                      [some |-> TRUE, self |-> call.self,
                                       time |-> call.current_time,
                                       result |-> fr.value, text |-> call.text])
               ELSE /\ call' = [call EXCEPT !.state = "raised", !.remotes = made]
                    /\ UNCHANGED <<cache, lastMiss>>
    /\ UNCHANGED <<wargs, wpolicy, ncalls, genVars>>
    /\ UNCHANGED pipelineVars

CacheNext == CallProcessText \/ ProcessTextAttempt

SpecCache == CacheInit /\ [][CacheNext]_vars

(***************************************************************************)
(* SpecGen: one generation run over a template, by one of the three        *)
(* strategies; every remote call replies, times out or fails.              *)
(***************************************************************************)
MaxNodes == 3

\* n top-level sections
Flat(n) == [i \in 1..n |-> Section(SectionIds[i], <<>>)]

\* n sections in pre-order: one with n - 2 subsections, then a sibling
Nested(n) ==
    <<Section(SectionIds[1],
              [i \in 1..(n - 2) |-> Section(SectionIds[i + 1], <<>>)]),
      Section(SectionIds[n], <<>>)>>

\* two sections that share an identifier
Twins == <<Section(SectionIds[1], <<>>), Section(SectionIds[1], <<>>)>>

Templates ==
    {[sections |-> Flat(n)] : n \in 0..MaxNodes} \cup
    {[sections |-> Nested(MaxNodes)], [sections |-> Twins]}

GenInit ==
    /\ now = 0
    /\ RetryIdle
    /\ CacheIdle
    /\ template \in Templates
    /\ strategy \in {"sequential", "batch", "parallel"}
    /\ max_workers \in IF strategy = "parallel" THEN {2, DefaultMaxWorkers} ELSE {0}
    /\ gpc = "idle"
    /\ todo = <<>>
    /\ generated_content = EmptyDict
    /\ visited = <<>>
    /\ batch = NoBatch
    /\ tasks = <<>>
    /\ PipelineIdle

\* generate_from_template up to the first call of process_sections
EnterSequential ==
    /\ generated_content' = EmptyDict
    /\ todo' = template.sections
    /\ visited' = <<>>
    /\ retry' = RetryFrame
    /\ gpc' = IF template.sections = <<>> THEN "done" ELSE "walk"

GenerateFromTemplate ==
    /\ gpc = "idle"
    /\ strategy = "sequential"
    /\ EnterSequential
    /\ UNCHANGED <<now, wargs, wpolicy, outcomes, cacheVars, template, strategy,
                   max_workers, batch, tasks>>
    /\ UNCHANGED pipelineVars

\* process_sections: one iteration of the retry wrapper around
\* _generate_section_content for the next section; when the wrapper returns,
\* the content is recorded if non-empty and the walk goes on to the
\* subsections, then the siblings; when it raises, so does the run
ProcessSections ==
    /\ gpc = "walk"
    /\ LET section == Head(todo)
       IN  \E remote \in GenRemoteOutcomes(Len(visited) + 1) :
            LET fr == RetryIteration(retry, generate_section_content(section, remote),
                                     <<section>>, "")
                rest == section.subsections \o Tail(todo)
                seen == [id |-> section.id, status |-> fr.status,
                         value |-> fr.value, invocations |-> fr.invocations]
            IN  IF fr.status = "running"
                THEN /\ retry' = fr
                     /\ UNCHANGED <<gpc, todo, generated_content, visited>>
                ELSE IF fr.status = "returned"
                THEN /\ retry' = RetryFrame
                     /\ generated_content' =
                            IF fr.value # <<>>
                            THEN DictPut(generated_content, section.id, fr.value)
                            ELSE generated_content
                     /\ todo' = rest
                     /\ visited' = Append(visited, seen)
                     /\ gpc' = IF rest = <<>> THEN "done" ELSE "walk"
                ELSE /\ retry' = fr
                     /\ visited' = Append(visited, seen)
                     /\ gpc' = "raised"
                     /\ UNCHANGED <<todo, generated_content>>
    /\ UNCHANGED <<now, wargs, wpolicy, outcomes, cacheVars, template, strategy,
                   max_workers, batch, tasks>>
    /\ UNCHANGED pipelineVars

\* generate_from_template_batch: the remote call and the try block; on an
\* exception, generate_from_template is entered
GenerateFromTemplateBatch ==
    /\ gpc = "idle"
    /\ strategy = "batch"
    /\ \E remote \in BatchRemoteOutcomes(template.sections) :
        LET tried == BatchTry(template.sections, remote)
        IN  /\ batch' = remote
            /\ IF tried.raised = "none"
               THEN /\ generated_content' = tried.content
                    /\ gpc' = "done"
                    /\ UNCHANGED <<todo, visited, retry>>
               ELSE EnterSequential
    /\ UNCHANGED <<now, wargs, wpolicy, outcomes, cacheVars, template, strategy,
                   max_workers, tasks>>
    /\ UNCHANGED pipelineVars

\* generate_from_template_parallel up to the submission of every section
GenerateFromTemplateParallel ==
    /\ gpc = "idle"
    /\ strategy = "parallel"
    /\ LET all_sections == Flatten(template.sections)
       IN  /\ tasks' = [p \in 1..Len(all_sections) |-> QueuedTask]
           /\ gpc' = IF all_sections = <<>> THEN "done" ELSE "pool"
    /\ generated_content' = EmptyDict
    /\ UNCHANGED <<now, retryVars, cacheVars, template, strategy, max_workers,
                   todo, visited, batch>>
    /\ UNCHANGED pipelineVars

\* CanStart for a pool that starts a future only while no earlier one has
\* ended with an error
CanStartWhileNoneFailed(p) ==
    /\ tasks[p].state = "queued"
    /\ \A q \in 1..(p - 1) : tasks[q].state # "queued" /\ tasks[q].result.error = "None"
    /\ Cardinality({q \in DOMAIN tasks : tasks[q].state = "running"}) < max_workers

\* a worker thread is free for the p-th future: it is the first one queued
\* and fewer than max_workers are running
CanStart(p) ==
    /\ tasks[p].state = "queued"
    /\ \A q \in 1..(p - 1) : tasks[q].state # "queued"
    /\ Cardinality({q \in DOMAIN tasks : tasks[q].state = "running"}) < max_workers

\* a worker thread in process_single_section: one iteration of the retry
\* wrapper around _generate_section_content for the p-th section
TaskAttempt(p) ==
    /\ gpc = "pool"
    /\ tasks[p].state = "running" \/ CanStart(p)
    /\ LET section == Flatten(template.sections)[p]
       IN  \E remote \in GenRemoteOutcomes(p) :
            LET fr == RetryIteration(tasks[p].frame,
                                     generate_section_content(section, remote),
                                     <<section>>, "")
            IN  tasks' = [tasks EXCEPT ![p] =
                    IF fr.status = "running"
                    THEN [@ EXCEPT !.state = "running", !.frame = fr]
                    ELSE [state |-> "done", frame |-> fr,
                          result |-> process_single_section(section, fr)]]
    /\ UNCHANGED <<now, retryVars, cacheVars, template, strategy, max_workers,
                   gpc, todo, generated_content, visited, batch>>
    /\ UNCHANGED pipelineVars

\* the main thread takes a finished future from as_completed; after the last
\* one the pool is shut down and the dict is returned
Collect(p) ==
    /\ gpc = "pool"
    /\ tasks[p].state = "done"
    /\ tasks' = [tasks EXCEPT ![p].state = "collected"]
    /\ generated_content' = CollectResult(generated_content, tasks[p].result)
    /\ gpc' = IF \A q \in DOMAIN tasks : q = p \/ tasks[q].state = "collected"
              THEN "done" ELSE "pool"
    /\ UNCHANGED <<now, retryVars, cacheVars, template, strategy, max_workers,
                   todo, visited, batch>>
    /\ UNCHANGED pipelineVars

GenNext ==
    \/ GenerateFromTemplate
    \/ ProcessSections
    \/ GenerateFromTemplateBatch
    \/ GenerateFromTemplateParallel
    \/ \E p \in DOMAIN tasks : TaskAttempt(p)
    \/ \E p \in DOMAIN tasks : Collect(p)

SpecGen == GenInit /\ [][GenNext]_vars

\* a step of the parallel strategy: of the calling thread or of a worker
ParallelStep ==
    \/ GenerateFromTemplateParallel
    \/ \E p \in DOMAIN tasks : TaskAttempt(p)
    \/ \E p \in DOMAIN tasks : Collect(p)

\* a run of generate_from_template_parallel on a pool narrower than the
\* tree, so that futures wait for a free worker
ParallelInit == GenInit /\ strategy = "parallel" /\ max_workers = 2

\* the parallel strategy, which keeps running while it has a step to take:
\* every remote call returns or fails within its timeout, so a worker that
\* can take its next step takes it, and as_completed hands over every
\* finished future
SpecParallelFair ==
    ParallelInit /\ [][ParallelStep]_vars /\ WF_vars(ParallelStep)
(***************************************************************************)
(* SpecPool: polish_sections_parallel.  Every item is polished by a call   *)
(* of polish_single_section on a pool thread; the calls share the dict of  *)
(* cache_text_result, which no lock guards, so a thread can be preempted   *)
(* between any two accesses of the dict.                                   *)
(***************************************************************************)
NumItems == 3

MaxTicks == 1

MinPolishLength == 10

\* raw contents of two features, long enough to be polished
PoolTexts == {Rep("u", MinPolishLength), Rep("v", MinPolishLength)}

\* what the remote call of a polish can do
PoolRemoteOutcomes ==
    {r \in RemoteOutcomes :
        \/ r.kind \in {"Timeout", "APIError"}
        \/ (r.kind = "reply" /\ Strip(r.content) # <<>>)}

\* a submitted call of polish_single_section that has not started
QueuedCall ==
    [pc |-> "queued", feature |-> <<0, <<>>>>, current_time |-> 0,
     result |-> <<>>, keys |-> <<>>, polished |-> <<>>, error |-> "None"]

\* polish_single_section returns (section_title, polished, None)
PolishReturned(w, value) ==
    [w EXCEPT !.pc = "done", !.polished = value, !.error = "None"]

\* polish_single_section catches e and returns (section_title, "", str(e))
PolishFailed(w, e) ==
    [w EXCEPT !.pc = "done", !.polished = <<>>, !.error = e]

\* what the calls of polish_single_section leave alone
poolRest == <<retryVars, call, lastMiss, ncalls, genVars, items, reqVars, docVars>>

PoolInit ==
    /\ now = 0
    /\ RetryIdle
    /\ CacheIdle
    /\ GenIdle
    /\ ReqIdle
    /\ DocIdle
    /\ items \in [1..NumItems -> PoolTexts]
    /\ workers = [i \in 1..NumItems |-> QueuedCall]

\* polish_single_section up to the call of process_text; the cache wrapper
\* up to  current_time = time.time()
PolishStart(i) ==
    /\ workers[i].pc = "queued"
    /\ workers' = [workers EXCEPT ![i] =
            IF items[i] = <<>> \/ Len(Strip(items[i])) < MinPolishLength
            THEN PolishFailed(@, "too short")
            ELSE [@ EXCEPT !.pc = "lookup", !.feature = text_feature(items[i]),
                           !.current_time = now]]
    /\ UNCHANGED <<now, cache, poolRest>>

\* if text_feature in cache
CacheContains(i) ==
    /\ workers[i].pc = "lookup"
    /\ workers' = [workers EXCEPT ![i].pc =
            IF workers[i].feature \in DOMAIN cache THEN "read" ELSE "compute"]
    /\ UNCHANGED <<now, cache, poolRest>>

\* cached_result, cached_time = cache[text_feature]  and the test of the age
CacheRead(i) ==
    /\ workers[i].pc = "read"
    /\ workers' = [workers EXCEPT ![i] =
            IF workers[i].feature \notin DOMAIN cache
            THEN PolishFailed(@, "KeyError")
            ELSE IF CacheLive(cache, @.feature, @.current_time)
            THEN PolishReturned(@, cache[@.feature][1])
            ELSE [@ EXCEPT !.pc = "compute"]]
    /\ UNCHANGED <<now, cache, poolRest>>

\* result = func(self, raw_text): the retry wrapper around process_text
CacheCompute(i) ==
    /\ workers[i].pc = "compute"
    /\ \E remote \in PoolRemoteOutcomes :
        LET fr == RetryIteration(RetryFrame, process_text(items[i], remote),
                                 <<items[i]>>, "raw_text")
        IN  workers' = [workers EXCEPT ![i] =
                IF fr.status = "returned"
                THEN [@ EXCEPT !.pc = "store", !.result = fr.value]
                ELSE PolishFailed(@, fr.exc)]
    /\ UNCHANGED <<now, cache, poolRest>>

\* cache[text_feature] = (result, current_time)
CacheStore(i) ==
    /\ workers[i].pc = "store"
    /\ cache' = DictPut(cache, workers[i].feature,
                        <<workers[i].result, workers[i].current_time>>)
    /\ workers' = [workers EXCEPT ![i].pc = "keys"]
    /\ UNCHANGED <<now, poolRest>>

\* list(cache.keys())
CacheKeys(i) ==
    /\ workers[i].pc = "keys"
    /\ \E order \in [1..Cardinality(DOMAIN cache) -> DOMAIN cache] :
        /\ \A a, b \in DOMAIN order : a # b => order[a] # order[b]
        /\ workers' = [workers EXCEPT ![i].pc = "test", ![i].keys = order]
    /\ UNCHANGED <<now, cache, poolRest>>

\* for feature in ...: if current_time - cache[feature][1] > expire_seconds;
\* after the last feature, return result
CacheSweepTest(i) ==
    /\ workers[i].pc = "test"
    /\ LET w == workers[i]
       IN  workers' = [workers EXCEPT ![i] =
            IF w.keys = <<>>
            THEN PolishReturned(w, w.result)
            ELSE IF Head(w.keys) \notin DOMAIN cache
            THEN PolishFailed(w, "KeyError")
            ELSE IF w.current_time - cache[Head(w.keys)][2] > expire_seconds
            THEN [w EXCEPT !.pc = "del"]
            ELSE [w EXCEPT !.keys = Tail(w.keys)]]
    /\ UNCHANGED <<now, cache, poolRest>>

\* del cache[feature]
CacheSweepDel(i) ==
    /\ workers[i].pc = "del"
    /\ LET feature == Head(workers[i].keys)
       IN  IF feature \in DOMAIN cache
           THEN /\ cache' = [g \in DOMAIN cache \ {feature} |-> cache[g]]
                /\ workers' = [workers EXCEPT ![i].pc = "test",
                                              ![i].keys = Tail(@)]
           ELSE /\ workers' = [workers EXCEPT ![i] = PolishFailed(@, "KeyError")]
                /\ UNCHANGED cache
    /\ UNCHANGED <<now, poolRest>>

\* time passes while calls wait for a thread or for the remote service
PoolTick ==
    /\ now < MaxTicks * (expire_seconds + 1)
    /\ \E i \in DOMAIN workers : workers[i].pc # "done"
    /\ now' = now + expire_seconds + 1
    /\ UNCHANGED <<cache, workers, poolRest>>

PoolNext ==
    \/ \E i \in DOMAIN workers : PolishStart(i)
    \/ \E i \in DOMAIN workers : CacheContains(i)
    \/ \E i \in DOMAIN workers : CacheRead(i)
    \/ \E i \in DOMAIN workers : CacheCompute(i)
    \/ \E i \in DOMAIN workers : CacheStore(i)
    \/ \E i \in DOMAIN workers : CacheKeys(i)
    \/ \E i \in DOMAIN workers : CacheSweepTest(i)
    \/ \E i \in DOMAIN workers : CacheSweepDel(i)
    \/ PoolTick

SpecPool == PoolInit /\ [][PoolNext]_vars

(***************************************************************************)
(* SpecReq: template-mode requests served concurrently, each by            *)
(* handle_template_optimization ("template") or by the view                *)
(* generate_from_template with a source document ("view").  Each creates a *)
(* DocumentImageTracker on its upload, extracts the images, generates and  *)
(* builds the document, and cleans up in its finally clause.               *)
(***************************************************************************)
NumRequests == 2

MaxImages == 1

NewRequest(kind, n) ==
    [kind |-> kind, pc |-> "new", media |-> n, temp_dir |-> FALSE,
     pending |-> <<>>, counter |-> 0, image_paths |-> <<>>, images |-> <<>>,
     inserted |-> <<>>, outcome |-> "none", cleanup |-> "none",
     logged |-> FALSE, raised |-> FALSE, dir_after |-> FALSE]

\* the two handlers that extract images, taken in turn by the requests
RequestKind(r) == IF r % 2 = 1 THEN "template" ELSE "view"

ReqInit ==
    /\ now = 0
    /\ RetryIdle
    /\ CacheIdle
    /\ GenIdle
    /\ PoolIdle
    /\ DocIdle
    /\ \E media \in [1..NumRequests -> 0..MaxImages] :
            requests = [r \in 1..NumRequests |->
                            NewRequest(RequestKind(r), media[r])]
    /\ scratch = [exists |-> FALSE, files |-> EmptyDict]

\* what the request handlers leave alone
reqRest == <<now, retryVars, cacheVars, genVars, poolVars, docVars>>

\* image_tracker = DocumentImageTracker(tmp_file_path) and
\* extract_images_with_context up to the extraction: Document(docx_path)
\* raises (the handler logs it and goes on without images), or the
\* directory is made
ReqExtractOpen(r) ==
    /\ requests[r].pc = "new"
    /\ \E readable \in BOOLEAN :
        IF readable
        THEN /\ scratch' = Makedirs(scratch)
             /\ requests' = [requests EXCEPT ![r].pc = "extract",
                                             ![r].temp_dir = TRUE,
                                             ![r].pending = MediaNames(requests[r].media)]
        ELSE /\ requests' = [requests EXCEPT ![r].pc = "body"]
             /\ UNCHANGED scratch
    /\ UNCHANGED reqRest

\* _extract_images_from_zipfile: while os.path.exists(extract_path)
ReqExtractCheck(r) ==
    /\ requests[r].pc = "extract"
    /\ requests[r].pending # <<>>
    /\ LET q == requests[r]
           extract_path == ExtractPath(Head(q.pending), q.counter)
       IN  requests' = [requests EXCEPT ![r] =
                IF scratch.exists /\ extract_path \in DOMAIN scratch.files
                THEN [q EXCEPT !.counter = q.counter + 1]
                ELSE [q EXCEPT !.pc = "write"]]
    /\ UNCHANGED <<scratch, reqRest>>

\* _extract_images_from_zipfile: open(extract_path, 'wb') and write; an
\* exception ends the extraction with the paths written so far
ReqExtractWrite(r) ==
    /\ requests[r].pc = "write"
    /\ LET q == requests[r]
           extract_path == ExtractPath(Head(q.pending), q.counter)
       IN  IF scratch.exists
           THEN /\ scratch' = WriteFile(scratch, extract_path, r)
                /\ requests' = [requests EXCEPT ![r] =
                        [q EXCEPT !.pc = "extract", !.pending = Tail(q.pending),
                                  !.counter = 0,
                                  !.image_paths = Append(q.image_paths, extract_path)]]
           ELSE /\ requests' = [requests EXCEPT ![r] =
                        [q EXCEPT !.pc = "body", !.pending = <<>>,
                                  !.images = q.image_paths]]
                /\ UNCHANGED scratch
    /\ UNCHANGED reqRest

\* extract_images_with_context after the extraction: every image paragraph
\* gets the next extracted path
ReqExtractDone(r) ==
    /\ requests[r].pc = "extract"
    /\ requests[r].pending = <<>>
    /\ requests' = [requests EXCEPT ![r].pc = "body",
                                    ![r].images = requests[r].image_paths]
    /\ UNCHANGED <<scratch, reqRest>>

\* the finally clause, which every exit of the try block runs:
\* image_tracker.cleanup(), then the handler returns.  The view wraps the
\* cleanup in try/except: pass.  The locals of the handler end with it.
ReqFinally(r, outcome) ==
    \E rmtree_ok \in BOOLEAN :
        LET q == requests[r]
            c == TrackerCleanup(q.temp_dir, scratch, rmtree_ok)
        IN  /\ scratch' = c.fs
            /\ requests' = [requests EXCEPT ![r] =
                    [q EXCEPT !.pc = "returned", !.outcome = outcome,
                              !.cleanup = c.result, !.logged = c.logged,
                              !.raised = c.raised /\ q.kind = "template",
                              !.dir_after = c.fs.exists,
                              !.counter = 0, !.images = <<>>,
                              !.inserted = <<>>]]

\* a return inside the try block before the document is built (empty
\* document, unknown template)
ReqEarlyReturn(r) ==
    /\ requests[r].pc = "body"
    /\ requests[r].inserted = <<>>
    /\ ReqFinally(r, "early_return")
    /\ UNCHANGED reqRest

\* an exception in the generation or in the building of the document: the
\* except clause renders the error page
ReqException(r) ==
    /\ requests[r].pc = "body"
    /\ ReqFinally(r, "exception")
    /\ UNCHANGED reqRest

\* the document builder inserts the next extracted image
ReqInsertPicture(r) ==
    /\ requests[r].pc = "body"
    /\ requests[r].images # <<>>
    /\ LET q == requests[r]
       IN  requests' = [requests EXCEPT ![r] =
                [q EXCEPT !.images = Tail(q.images),
                          !.inserted = Append(q.inserted,
                                              ReadPicture(scratch, Head(q.images)))]]
    /\ UNCHANGED <<scratch, reqRest>>

\* the document is saved and the response made
ReqSuccess(r) ==
    /\ requests[r].pc = "body"
    /\ requests[r].images = <<>>
    /\ ReqFinally(r, "success")
    /\ UNCHANGED reqRest

ReqNext ==
    \/ \E r \in DOMAIN requests : ReqExtractOpen(r)
    \/ \E r \in DOMAIN requests : ReqExtractCheck(r)
    \/ \E r \in DOMAIN requests : ReqExtractWrite(r)
    \/ \E r \in DOMAIN requests : ReqExtractDone(r)
    \/ \E r \in DOMAIN requests : ReqEarlyReturn(r)
    \/ \E r \in DOMAIN requests : ReqException(r)
    \/ \E r \in DOMAIN requests : ReqInsertPicture(r)
    \/ \E r \in DOMAIN requests : ReqSuccess(r)

SpecReq == ReqInit /\ [][ReqNext]_vars

(***************************************************************************)
(* Specification SpecPlace: one run of the matching of the extracted       *)
(* images and of the building of the output document                       *)
(***************************************************************************)
\* TemplateSection(id, title, requirements, is_optional, subsections)
TemplateSection(id, title, requirements, is_optional, subsections) ==
    [id |-> id, title |-> title, requirements |-> requirements,
     is_optional |-> is_optional, subsections |-> subsections]

SectionA(is_optional, subsections) ==
    TemplateSection("a", <<"a">>, <<>>, is_optional, subsections)

SectionB == TemplateSection("b", <<"B">>, <<"K", " ", "q">>, FALSE, <<>>)

PlaceTemplates ==
    {[sections |-> <<>>],
     [sections |-> <<SectionA(FALSE, <<>>)>>],
     [sections |-> <<SectionA(FALSE, <<>>), SectionB>>],
     [sections |-> <<SectionA(FALSE, <<SectionB>>)>>],
     [sections |-> <<SectionA(TRUE, <<>>), SectionB>>]}

\* a text _generate_section_content rejects as mostly placeholders would
\* still pass its length test: MinContentLength characters, 33 of them in
\* placeholder patterns
PlaceholderText ==
    <<"[", "dai", "bu", "chong", "]", "[", "dai", "tian", "xie", "]",
      "[", "dai", "wan", "shan", "]", "qing", "bu", "chong",
      "qing", "tian", "xie", "qing", "wan", "shan">>
    \o Rep("x", MinContentLength - 24)

\* contents a generation run stores: stripped texts of at least
\* MinContentLength characters
PlaceContents ==
    {PlaceholderText, Rep("x", MinContentLength), Rep("x", SubstantialLength),
     Rep("x", SubstantialLength + 1)}

\* the ids of the sections of a template, nested ones included
PlaceIds(template_) ==
    {Flatten(template_.sections)[i].id : i \in DOMAIN Flatten(template_.sections)}

\* the generation results for a template: some of its sections, in any
\* order of insertion, each with a content
GenerationResults(template_) ==
    {g \in UNION {[1..n -> [id : PlaceIds(template_), content : PlaceContents]] :
                    n \in 0..Cardinality(PlaceIds(template_))} :
        \A i, j \in DOMAIN g : g[i].id = g[j].id => i = j}

PrecedingTexts == {<<>>, <<"x", "A">>, <<"B">>}

FollowingTexts == {<<>>, <<"A", "x">>}

ParagraphTexts == {<<>>, <<"k", "a">>}

\* the path of the k-th extracted image
ImagePath(k) == k

\* what _get_preceding_text, _get_following_text and paragraph.text gave
ImageContexts ==
    [preceding_text : PrecedingTexts, following_text : FollowingTexts,
     paragraph_text : ParagraphTexts]

\* the metadata of the k-th extracted image
ImageMetadata(k, context) == [image_path |-> ImagePath(k)] @@ context

PlaceInit ==
    /\ now = 0
    /\ RetryIdle
    /\ CacheIdle
    /\ GenIdle
    /\ PoolIdle
    /\ ReqIdle
    /\ ReconIdle
    /\ doc_template \in PlaceTemplates
    /\ generated_sections \in GenerationResults(doc_template)
    /\ \E n \in 0..MaxImages :
        \E contexts \in [1..n -> ImageContexts] :
            extracted_images = [k \in 1..n |-> ImageMetadata(k, contexts[k])]
    /\ loadable = {}
    /\ builder \in {"handler", "view"}
    /\ next_image = 1
    /\ image_insertions = <<>>
    /\ output_doc = <<>>
    /\ bpc = "match"

placeRest == <<now, retryVars, cacheVars, genVars, poolVars, reqVars, reconVars>>

\* one pass of the loop over extracted_images: the handler appends whatever
\* the resolver returned, the view only a non-null section
MatchImage ==
    /\ bpc = "match"
    /\ next_image <= Len(extracted_images)
    /\ LET found == find_best_insertion_position(extracted_images[next_image],
                                                 generated_sections, doc_template)
           entry == [section_id |-> found.section_id,
                     image_path |-> extracted_images[next_image].image_path,
                     position |-> found.position]
       IN  image_insertions' =
               IF builder = "handler" \/ found.section_id # None
               THEN Append(image_insertions, entry)
               ELSE image_insertions
    /\ next_image' = next_image + 1
    /\ UNCHANGED <<doc_template, generated_sections, extracted_images, loadable,
                   builder, output_doc, bpc, placeRest>>

\* the rest of _build_document_from_template, up to doc.save
BuildView ==
    /\ bpc = "match"
    /\ builder = "view"
    /\ next_image > Len(extracted_images)
    /\ \E files \in SUBSET {extracted_images[k].image_path : k \in DOMAIN extracted_images} :
        /\ loadable' = files
        /\ output_doc' = build_document_from_template(doc_template,
                             generated_sections, image_insertions, files)
    /\ bpc' = "saved"
    /\ UNCHANGED <<doc_template, generated_sections, extracted_images, builder,
                   next_image, image_insertions, placeRest>>

\* the building of the document in handle_template_optimization, up to
\* output_doc.save or to the except clause
BuildHandler ==
    /\ bpc = "match"
    /\ builder = "handler"
    /\ next_image > Len(extracted_images)
    /\ LET built == handler_document(doc_template, generated_sections)
       IN  /\ output_doc' = built.doc
           /\ bpc' = IF built.raised = "none" THEN "saved" ELSE "raised"
    /\ UNCHANGED <<doc_template, generated_sections, extracted_images, loadable,
                   builder, next_image, image_insertions, placeRest>>

PlaceNext ==
    \/ MatchImage
    \/ BuildView
    \/ BuildHandler

SpecPlace == PlaceInit /\ [][PlaceNext]_vars
(***************************************************************************)
(* Specification SpecRecon: one run of _process_with_ai                    *)
(***************************************************************************)
MaxParagraphs == 3

MaxMedia == 2

MaxBlocks == 3

\* the paragraphs a document is made of: text, blank, and drawings of each
\* media file, one of them with a caption in the same paragraph
ParagraphKinds ==
    {OriginalParagraph(FALSE, <<"t">>, 0), OriginalParagraph(FALSE, <<" ">>, 0)}
    \cup {OriginalParagraph(TRUE, <<>>, m) : m \in 1..MaxMedia}
    \cup {OriginalParagraph(TRUE, <<"c">>, 1)}

\* the k-th text block of a reply
ReplyBlock(k) == <<"p", ToString(k)>>

RECURSIVE ReplyOf(_)
\* a reply of n blocks separated by blank lines
ReplyOf(n) ==
    IF n = 0 THEN <<>>
    ELSE IF n = 1 THEN ReplyBlock(1)
    ELSE ReplyOf(n - 1) \o <<"\n", "\n">> \o ReplyBlock(n)

\* what process_text can do: return a reply (of no block, of some blocks, of
\* two blocks around a blank one), or raise
ReconOutcomes ==
    {[kind |-> "return", value |-> ReplyOf(n)] : n \in 0..MaxBlocks}
    \cup {[kind |-> "return",
           value |-> ReplyBlock(1) \o <<" ", "\n", "\n", " ", "\n", "\n">>
                     \o ReplyBlock(2)],
          [kind |-> "raise", value |-> <<>>]}

\* _extract_images_from_docx has run: image_paths holds the media files in
\* the order of the archive (none when the extraction failed)
ReconInit ==
    /\ now = 0
    /\ RetryIdle
    /\ CacheIdle
    /\ GenIdle
    /\ PoolIdle
    /\ ReqIdle
    /\ PlaceIdle
    /\ \E n \in 0..MaxParagraphs : original_paragraphs \in [1..n -> ParagraphKinds]
    /\ \E m \in 0..MaxMedia : image_paths = [k \in 1..m |-> k]
    /\ unloadable \in {{}} \cup {{m} : m \in 1..MaxMedia}
    /\ processed_text_blocks = <<>>
    /\ new_doc = <<>>
    /\ para_idx = 0
    /\ img_idx = 0
    /\ text_idx = 0
    /\ rpc = "text"

reconRest == <<now, retryVars, cacheVars, genVars, poolVars, reqVars, placeVars>>

\* the classification of the paragraphs and the call of process_text
ProcessText ==
    /\ rpc = "text"
    /\ \E outcome \in ReconOutcomes :
        processed_text_blocks' = TextBlocks(PureTexts(original_paragraphs), outcome)
    /\ rpc' = "rebuild"
    /\ UNCHANGED <<original_paragraphs, image_paths, unloadable, new_doc,
                   para_idx, img_idx, text_idx, reconRest>>

\* one pass of the loop over original_paragraphs
RebuildParagraph ==
    /\ rpc = "rebuild"
    /\ para_idx < Len(original_paragraphs)
    /\ LET r == Rebuild(para_idx + 1, original_paragraphs, image_paths,
                        unloadable, processed_text_blocks, img_idx, text_idx)
       IN  /\ new_doc' = Append(new_doc, r.para)
           /\ img_idx' = r.img_idx
           /\ text_idx' = r.text_idx
    /\ para_idx' = para_idx + 1
    /\ UNCHANGED <<original_paragraphs, image_paths, unloadable,
                   processed_text_blocks, rpc, reconRest>>

\* the loop over the blocks left, and self.doc = new_doc
AppendSurplus ==
    /\ rpc = "rebuild"
    /\ para_idx = Len(original_paragraphs)
    /\ new_doc' = new_doc \o Surplus(processed_text_blocks, text_idx)
    /\ text_idx' = IF text_idx < Len(processed_text_blocks)
                   THEN Len(processed_text_blocks) ELSE text_idx
    /\ rpc' = "done"
    /\ UNCHANGED <<original_paragraphs, image_paths, unloadable,
                   processed_text_blocks, para_idx, img_idx, reconRest>>

ReconNext ==
    \/ ProcessText
    \/ RebuildParagraph
    \/ AppendSurplus

SpecRecon == ReconInit /\ [][ReconNext]_vars
(***************************************************************************)
(* Specification SpecContext: the loop of extract_images_with_context      *)
(* that maps the extracted files to the image paragraphs                   *)
(***************************************************************************)
MaxDocParagraphs == 5

\* the k-th paragraph of a document, of a kind: a text of its own, a blank
\* line, a drawing, a drawing with a caption
DocParagraph(k, kind) ==
    CASE kind = "text" -> OriginalParagraph(FALSE, <<"t", ToString(k)>>, 0)
      [] kind = "blank" -> OriginalParagraph(FALSE, <<" ">>, 0)
      [] kind = "image" -> OriginalParagraph(TRUE, <<>>, 1)
      [] kind = "caption" -> OriginalParagraph(TRUE, <<" ", "c", ToString(k)>>, 1)

DocKinds == {"text", "blank", "image", "caption"}

\* Document(docx_path) is read and the media files are extracted; the loop
\* is about to start
ContextInit ==
    /\ now = 0
    /\ RetryIdle
    /\ CacheIdle
    /\ GenIdle
    /\ PoolIdle
    /\ ReqIdle
    /\ \E n \in 1..MaxDocParagraphs :
        \E kinds \in [1..n -> DocKinds] :
            original_paragraphs = [k \in 1..n |-> DocParagraph(k, kinds[k])]
    /\ \E m \in 1..MaxMedia : image_paths = [k \in 1..m |-> k]
    /\ extracted_images = <<>>
    /\ para_idx = 0
    /\ img_idx = 0
    /\ doc_template = [sections |-> <<>>]
    /\ generated_sections = <<>>
    /\ loadable = {}
    /\ builder = "none"
    /\ next_image = 1
    /\ image_insertions = <<>>
    /\ output_doc = <<>>
    /\ bpc = "idle"
    /\ unloadable = {}
    /\ processed_text_blocks = <<>>
    /\ new_doc = <<>>
    /\ text_idx = 0
    /\ rpc = "idle"

\* one pass of  for idx, para in enumerate(doc.paragraphs)
ScanParagraph ==
    /\ bpc = "idle"
    /\ rpc = "idle"
    /\ para_idx < Len(original_paragraphs)
    /\ IF original_paragraphs[para_idx + 1].has_image /\ img_idx < Len(image_paths)
       THEN /\ extracted_images' =
                    Append(extracted_images,
                           ImageRecord(original_paragraphs, para_idx,
                                       image_paths[img_idx + 1]))
            /\ img_idx' = img_idx + 1
       ELSE UNCHANGED <<extracted_images, img_idx>>
    /\ para_idx' = para_idx + 1
    /\ UNCHANGED <<now, retryVars, cacheVars, genVars, poolVars, reqVars,
                   original_paragraphs, image_paths, doc_template,
                   generated_sections, loadable, builder, next_image,
                   image_insertions, output_doc, bpc, unloadable,
                   processed_text_blocks, new_doc, text_idx, rpc>>

ContextNext == ScanParagraph

SpecContext == ContextInit /\ [][ContextNext]_vars
(***************************************************************************)
(* Claims about retry_on_connection_error (checked under SpecRetry)        *)
(***************************************************************************)
RECURSIVE SeqSum(_)
SeqSum(q) == IF q = <<>> THEN 0 ELSE Head(q) + SeqSum(Tail(q))

\* the first k invocations all raised a timeout or a connection error
FirstTransient(k) ==
    /\ k <= Len(outcomes)
    /\ \A i \in 1..k : outcomes[i].kind \in TransientErrors

\* C3: k < max_retries transient failures followed by a success: the wrapper
\* returns the success value after exactly k+1 invocations and exactly k
\* sleeps, the first of 1 s and each later one backoff_factor times (so
\* strictly longer than) the one before; it has slept for their sum.
C3_RetryThenSuccess ==
    \A k \in 0..(max_retries - 1) :
        (/\ Len(outcomes) = k + 1
         /\ FirstTransient(k)
         /\ outcomes[k + 1].kind = "return")
        => /\ retry.status = "returned"
           /\ retry.value = outcomes[k + 1].value
           /\ retry.invocations = k + 1
           /\ Len(retry.sleeps) = k
           /\ (k >= 1 => retry.sleeps[1] = InitialWaitTime)
           /\ \A i \in 1..(k - 1) :
                /\ retry.sleeps[i + 1] = backoff_factor * retry.sleeps[i]
                /\ retry.sleeps[i + 1] > retry.sleeps[i]
           /\ now = SeqSum(retry.sleeps)

C3_Witness ==
    /\ Len(outcomes) = max_retries
    /\ FirstTransient(max_retries - 1)
    /\ outcomes[max_retries].kind = "return"
    /\ retry.status = "returned"
    /\ retry.value = <<"o", "k">>
    /\ retry.sleeps = <<1, 2>>

C5_OtherErrorPropagates ==
    \A j \in 1..Len(outcomes) :
        outcomes[j].kind \in OtherErrors
        => /\ j = Len(outcomes)
           /\ retry.status = "raised"
           /\ retry.exc = outcomes[j].kind
           /\ retry.invocations = j
           /\ Len(retry.sleeps) = j - 1
           /\ retry.value = <<>>
           /\ now = SeqSum(retry.sleeps)

C5_Witness ==
    /\ Len(outcomes) = max_retries
    /\ FirstTransient(max_retries - 1)
    /\ outcomes[max_retries].kind = "ValueError"
    /\ retry.status = "raised"
    /\ retry.exc = "ValueError"


\* C22: when the retries of a call wrapped with the 'raw_text' policy are
\* exhausted, the value returned is the text that was passed in, unchanged,
\* leading and trailing whitespace included.
C22_ExhaustedReturnsInputUntouched ==
    (/\ wpolicy = "raw_text"
     /\ retry.status = "returned"
     /\ Len(outcomes) = max_retries
     /\ FirstTransient(max_retries))
    => retry.value = wargs[1]
(***************************************************************************)
(* Claims about cache_text_result and process_text (checked under          *)
(* SpecCache).  call.prev is the last earlier call with the feature of     *)
(* this call that invoked the wrapped function and stored its result.      *)
(***************************************************************************)
\* C1: a call whose feature (length and first 100 characters of the trimmed
\* text) is that of an earlier call that computed, made less than
\* expire_seconds after it, is a hit: it does not invoke the wrapped
\* function (so the function ran once for the two calls), makes no remote
\* call, and returns the earlier call's result.
C1_HitWithinTTL ==
    (/\ call.state # "none"
     /\ call.prev.some
     /\ call.current_time - call.prev.time < expire_seconds)
    => /\ call.state = "returned"
       /\ call.hit
       /\ call.invoked = 0
       /\ call.remotes = <<>>
       /\ call.result = call.prev.result

C1_Witness ==
    /\ call.state = "returned"
    /\ call.prev.some
    /\ call.current_time - call.prev.time = expire_seconds - 1
    /\ call.text # call.prev.text
    /\ Len(call.text) > FeaturePrefix
    /\ call.hit
    /\ call.result = <<"P">>

\* C2: a call made expire_seconds or more after the earlier call that
\* computed for its feature is not served from the cache: it invokes the
\* wrapped function again and, when that returns, stores and returns the
\* new result.
C2_RecomputeAfterTTL ==
    (/\ call.state # "none"
     /\ call.prev.some
     /\ call.current_time - call.prev.time >= expire_seconds)
    => /\ ~call.hit
       /\ call.invoked = 1
       /\ (call.state = "returned"
           => /\ call.result = retry.value
              /\ call.feature \in DOMAIN cache
              /\ cache[call.feature] = <<call.result, call.current_time>>)

C2_Witness ==
    /\ call.state = "returned"
    /\ call.prev.some
    /\ call.current_time - call.prev.time = expire_seconds
    /\ ~call.hit
    /\ call.result = <<"P">>
    /\ call.prev.result # <<"P">>
    /\ cache[call.feature] = <<call.result, call.current_time>>

\* C6: a polish call whose remote calls failed with timeouts or connection
\* errors is retried: after a first transient failure a second remote call is
\* made, after a backoff sleep, and the raw text comes back only when
\* max_retries remote calls have failed.
C6_TransientFailureRetried ==
    (/\ call.state = "returned"
     /\ ~call.hit
     /\ call.remotes # <<>>
     /\ call.remotes[1] \in TransientErrors)
    => /\ Len(call.remotes) >= 2
       /\ Len(retry.sleeps) >= 1
       /\ ((\A i \in 1..Len(call.remotes) : call.remotes[i] \in TransientErrors)
           => /\ Len(call.remotes) = max_retries
              /\ call.result = Strip(call.text))

(***************************************************************************)
(* Claims about the generation strategies (checked under SpecGen)          *)
(***************************************************************************)
AllSections == Flatten(template.sections)

DistinctIds ==
    \A p, q \in 1..Len(AllSections) :
        p # q => AllSections[p].id # AllSections[q].id

\* the p-th section's generation returned a content; it raised, returned
\* empty or too short a content, or ran out of retries
Succeeded(p) ==
    /\ tasks[p].state \in {"done", "collected"}
    /\ tasks[p].frame.status = "returned"
    /\ tasks[p].frame.value # <<>>

Failed(p) ==
    /\ tasks[p].state \in {"done", "collected"}
    /\ ~Succeeded(p)

\* C7: the parallel strategy never raises, and when it has returned for a
\* tree of distinct identifiers in which the generation of exactly one
\* section i failed and that of every other section succeeded, the dict
\* holds exactly the other sections' identifiers, each with the content its
\* own generation returned, whatever the order in which the worker threads
\* ran and the futures were collected.
C7_ParallelOmitsOnlyFailure ==
    strategy = "parallel"
    => /\ gpc # "raised"
       /\ (gpc = "done" /\ DistinctIds
           => \A i \in 1..Len(AllSections) :
                (Failed(i) /\ \A j \in 1..Len(AllSections) : j # i => Succeeded(j))
                => /\ DOMAIN generated_content =
                        {AllSections[j].id : j \in 1..Len(AllSections) \ {i}}
                   /\ \A j \in 1..Len(AllSections) \ {i} :
                        generated_content[AllSections[j].id] = tasks[j].frame.value)

C7_Witness ==
    /\ strategy = "parallel"
    /\ gpc = "done"
    /\ template.sections = Nested(MaxNodes)
    /\ tasks[2].frame.status = "raised"
    /\ \A j \in 1..Len(AllSections) : j # 2 => Succeeded(j)
    /\ generated_content[SectionIds[1]] = Rep("1", MinContentLength)
    /\ SectionIds[2] \notin DOMAIN generated_content

RECURSIVE SequentialMap(_)
\* the dict generate_from_template builds from the calls in v, in order
SequentialMap(v) ==
    IF v = <<>>
    THEN EmptyDict
    ELSE LET before == SequentialMap(SubSeq(v, 1, Len(v) - 1))
             last == v[Len(v)]
         IN  IF last.status = "returned" /\ last.value # <<>>
             THEN DictPut(before, last.id, last.value)
             ELSE before

\* every section of the tree was attempted exactly once, in pre-order
WalkedWholeTree ==
    /\ Len(visited) = Len(AllSections)
    /\ \A p \in 1..Len(visited) : visited[p].id = AllSections[p].id

\* C8: in the sequential strategy the failure of one section's generation
\* (an exception, an empty or too short content) is never fatal: the run
\* does not raise, every section of the tree is attempted in pre-order and
\* the dict returned holds exactly the sections that succeeded.
C8_SequentialFailureNotFatal ==
    strategy = "sequential"
    => /\ gpc # "raised"
       /\ (gpc = "done"
           => /\ WalkedWholeTree
              /\ generated_content = SequentialMap(visited))

\* the try block of the batch strategy raised, so the except clause ran
BatchFellBack ==
    /\ batch.kind # "none"
    /\ BatchTry(template.sections, batch).raised # "none"

\* C9: when the batch remote call or the processing of its reply raises,
\* generate_from_template_batch does not raise: it runs the sequential
\* strategy once over the whole tree and returns the dict that run builds,
\* with nothing of the batch reply in it.
C9_BatchFallbackNeverRaises ==
    (strategy = "batch" /\ BatchFellBack)
    => /\ gpc # "raised"
       /\ (gpc = "done"
           => /\ WalkedWholeTree
              /\ generated_content = SequentialMap(visited))

\* the dict that gives each section the block of the batch reply that
\* belongs to it
BlockMap ==
    [id \in {AllSections[p].id : p \in 1..Len(AllSections)} |->
        Block(CHOOSE p \in 1..Len(AllSections) : AllSections[p].id = id)]

\* C10: when the batch remote call replies with one block per section in
\* tree order and generate_from_template_batch returns, it has made that one
\* remote call and no per-section generation call, and the dict it returns
\* gives each section its block of the reply.
C10_BatchSplitsReply ==
    (/\ strategy = "batch"
     /\ DistinctIds
     /\ batch.kind = "reply"
     /\ ~batch.none
     /\ batch.content = BatchReplyFrom(AllSections, 1)
     /\ gpc = "done")
    => /\ visited = <<>>
       /\ generated_content = BlockMap

(***************************************************************************)
(* Assembly of the parallel result (checked under SpecGen)                 *)
(***************************************************************************)
RECURSIVE CollectInOrder(_, _)
\* the dict the collecting loop builds when the first n futures complete in
\* the order of their submission
CollectInOrder(ts, n) ==
    IF n = 0
    THEN EmptyDict
    ELSE CollectResult(CollectInOrder(ts, n - 1), ts[n].result)

\* C11: the dict generate_from_template_parallel returns is the same under
\* every order of completion of the worker tasks: whatever order the futures
\* were collected in, it is the dict that collecting them in the order of
\* their submission gives for the same outcome of every section.  No
\* template is refused (duplicate identifiers are at most a warning of
\* validate_template_consistency, which the engine does not call).
C11_AssemblyOrderIndependent ==
    (strategy = "parallel" /\ gpc = "done")
    => generated_content = CollectInOrder(tasks, Len(tasks))

(***************************************************************************)
(* Claims about the shared cache (checked under SpecPool)                  *)
(***************************************************************************)
\* C12: the lookup, insert and sweep of a call of the cached process_text
\* are serialized with respect to the other worker threads: no call fails,
\* and so loses its result, on an entry another thread inserted or deleted
\* between two of its accesses of the dict (a KeyError of the dict).
C12_CacheAccessSerialized ==
    \A i \in DOMAIN workers : workers[i].error # "KeyError"

(***************************************************************************)
(* Claims about the scratch directory (checked under SpecReq)              *)
(***************************************************************************)
\* C13: every extraction run has a scratch directory of its own: while a
\* request is building its document, every image file its metadata names
\* is there and holds what this run wrote (no other run has overwritten or
\* deleted it), and every picture it has inserted was loaded from its own
\* file.
C13_ScratchDirectoryPerRun ==
    \A r \in DOMAIN requests :
        requests[r].pc = "body"
        => /\ \A k \in DOMAIN requests[r].images :
                ReadPicture(scratch, requests[r].images[k]) =
                    [loaded |-> TRUE, of |-> r]
           /\ \A k \in DOMAIN requests[r].inserted :
                requests[r].inserted[k] = [loaded |-> TRUE, of |-> r]

Placed(image_path) ==
    \E p \in DOMAIN output_doc :
        /\ output_doc[p].kind \in {"image", "image_failed"}
        /\ output_doc[p].of = image_path

\* C15: in the template pipeline no extracted image is dropped: when the
\* template has a section and a document was produced, every extracted image
\* has an image paragraph in the output document.
C15_NoImageDropped ==
    (bpc = "saved" /\ doc_template.sections # <<>>)
        => \A k \in DOMAIN extracted_images : Placed(extracted_images[k].image_path)

\* the entries of image_insertions of the handler, which records the answer
\* of the resolver for every image: the k-th entry is for the k-th image
Answers == IF builder = "handler" THEN DOMAIN image_insertions ELSE {}

\* C16: find_best_insertion_position returns a section whenever the template
\* has a section, and returns none only when the template has no section and
\* the generation result is empty.
C16_ResolverNeverNull ==
    \A k \in Answers :
        /\ doc_template.sections # <<>> => image_insertions[k].section_id # None
        /\ image_insertions[k].section_id = None
               => doc_template.sections = <<>> /\ generated_sections = <<>>

\* the highest score any top-level section reaches for the k-th image
BestScore(k) ==
    BestMatch(extracted_images[k], doc_template.sections,
              [section |-> None, score |-> 0]).score

C16_Witness ==
    \E k \in Answers :
        /\ doc_template.sections # <<>>
        /\ BestScore(k) = 0
        /\ generated_sections = <<>>
        /\ image_insertions[k].section_id = doc_template.sections[1].id

\* the title of the section s appears in the text, in any case
Mentions(text, s) == Contains(Lower(text), Lower(s.title))

\* C17: if the preceding text of an image contains the exact title of a
\* section of the tree and the title of no other section appears in its
\* preceding text, following text or paragraph text, the resolver returns
\* that section.
C17_TitleInPrecedingTextWins ==
    \A k \in Answers :
        LET m == extracted_images[k]
            flat == Flatten(doc_template.sections)
        IN  \A i \in DOMAIN flat :
                (/\ Contains(m.preceding_text, flat[i].title)
                 /\ \A j \in DOMAIN flat \ {i} :
                        /\ ~Mentions(m.preceding_text, flat[j])
                        /\ ~Mentions(m.following_text, flat[j])
                        /\ ~Mentions(m.paragraph_text, flat[j]))
                    => image_insertions[k].section_id = flat[i].id

\* the items of the generation result whose content is longer than
\* SubstantialLength characters
Substantial == {i \in DOMAIN generated_sections :
                    Len(generated_sections[i].content) > SubstantialLength}

\* C18: when some section scores above 0 the resolver returns a section of
\* the highest score; otherwise the first section of the generation result
\* with more than 100 characters, otherwise the last section of the
\* generation result, otherwise the first section of the tree.
C18_FallbackChain ==
    \A k \in Answers :
        LET m == extracted_images[k]
            got == image_insertions[k].section_id
            sections == doc_template.sections
        IN  IF BestScore(k) > 0
            THEN \E i \in DOMAIN sections :
                    /\ sections[i].id = got
                    /\ calculate_relevance_score(m, sections[i]) = BestScore(k)
                    /\ \A j \in DOMAIN sections :
                        calculate_relevance_score(m, sections[j]) <= BestScore(k)
            ELSE IF Substantial # {}
            THEN \E i \in Substantial :
                    /\ generated_sections[i].id = got
                    /\ \A j \in Substantial : i <= j
            ELSE IF generated_sections # <<>>
            THEN got = generated_sections[Len(generated_sections)].id
            ELSE IF sections # <<>>
            THEN got = sections[1].id
            ELSE got = None

\* the second fallback decided, between two sections
C18_Witness ==
    \E k \in Answers :
        /\ BestScore(k) = 0
        /\ Substantial = {}
        /\ Len(generated_sections) = 2
        /\ image_insertions[k].section_id = generated_sections[2].id

\* the generation results holding the items of g in another order of
\* insertion
Reorderings(g) ==
    IF g = <<>> THEN {<<>>}
    ELSE {[i \in DOMAIN g |-> g[f[i]]] : f \in Permutations(DOMAIN g)}

\* C26: the placement of an image does not depend on the order in which the
\* parallel strategy inserted the contents: for every generation result with
\* the same pairs of identifier and content, the resolver returns the
\* section it returned for this one.
C26_PlacementIgnoresInsertionOrder ==
    \A k \in Answers :
        \A g \in Reorderings(generated_sections) :
            find_best_insertion_position(extracted_images[k], g,
                                         doc_template).section_id
                = image_insertions[k].section_id
(***************************************************************************)
(* Claims about the reconstruction of a document                           *)
(***************************************************************************)
\* the number of text paragraphs among the first i original paragraphs
TextRank(i) == Cardinality({j \in TextParaIndices(original_paragraphs) : j <= i})

EveryImageExtracted ==
    \A i \in ImageParaIndices(original_paragraphs) :
        \E k \in DOMAIN image_paths : image_paths[k] = original_paragraphs[i].image

\* C19: when there are as many text blocks as original text paragraphs and
\* the media file of every image paragraph was extracted, the rebuilt
\* document has the paragraphs of the original one by one: the k-th text
\* block at the k-th text paragraph, the image of the source paragraph at an
\* image paragraph, a blank paragraph at a blank one.
C19_ReconstructionKeepsSequence ==
    (/\ rpc = "done"
     /\ Len(processed_text_blocks) = Cardinality(TextParaIndices(original_paragraphs))
     /\ EveryImageExtracted)
        => /\ Len(new_doc) = Len(original_paragraphs)
           /\ \A i \in DOMAIN original_paragraphs :
                new_doc[i] =
                    IF i \in ImageParaIndices(original_paragraphs)
                    THEN RebuiltParagraph("image", original_paragraphs[i].image)
                    ELSE IF i \in TextParaIndices(original_paragraphs)
                         THEN RebuiltParagraph("text", processed_text_blocks[TextRank(i)])
                         ELSE RebuiltParagraph("blank", <<>>)

IsTextParagraph(p) == p.kind = "text"

RECURSIVE TextsOf(_)
\* the texts of the text paragraphs of a document, in order
TextsOf(doc) ==
    IF doc = <<>> THEN <<>>
    ELSE (IF IsTextParagraph(Head(doc)) THEN <<Head(doc).of>> ELSE <<>>)
         \o TextsOf(Tail(doc))

SurplusCount ==
    IF Len(processed_text_blocks) > Cardinality(TextParaIndices(original_paragraphs))
    THEN Len(processed_text_blocks) - Cardinality(TextParaIndices(original_paragraphs))
    ELSE 0

\* C20: the rebuilt document holds every text block exactly once, in the
\* order of the reply; the blocks beyond the number of original text
\* paragraphs come after the last rebuilt paragraph, so the document has the
\* number of original paragraphs plus that surplus.
C20_NoBlockDiscarded ==
    rpc = "done"
        => /\ TextsOf(new_doc) = processed_text_blocks
           /\ Len(new_doc) = Len(original_paragraphs) + SurplusCount
           /\ \A k \in 1..SurplusCount :
                new_doc[Len(original_paragraphs) + k] =
                    RebuiltParagraph("text",
                        processed_text_blocks[Len(processed_text_blocks) - SurplusCount + k])

C20_Witness ==
    /\ rpc = "done"
    /\ SurplusCount > 0
    /\ TextParaIndices(original_paragraphs) # {}
    /\ ImageParaIndices(original_paragraphs) # {}
(***************************************************************************)
(* Claims about the context of an extracted image                          *)
(***************************************************************************)
\* the last n elements of a sequence (all of them when it has fewer)
LastN(s, n) == IF Len(s) <= n THEN s ELSE SubSeq(s, Len(s) - n + 1, Len(s))

\* the first n elements of a sequence
FirstN(s, n) == IF Len(s) <= n THEN s ELSE SubSeq(s, 1, n)

\* the non-empty paragraph texts before and after the paragraph at idx
NonEmptyBefore(idx) ==
    StrippedNonEmpty(TextsOfParagraphs(Slice(original_paragraphs, 0, idx)))

NonEmptyAfter(idx) ==
    StrippedNonEmpty(TextsOfParagraphs(
        Slice(original_paragraphs, idx + 1, Len(original_paragraphs))))

\* C21: the preceding text recorded with an image is made of the 3 nearest
\* non-empty paragraph texts before its paragraph (all of them when there
\* are fewer), in document order, its following text of the 3 nearest
\* non-empty paragraph texts after it.
C21_ContextOfThreeNonEmpty ==
    \A k \in DOMAIN extracted_images :
        LET idx == extracted_images[k].paragraph_index
        IN  /\ extracted_images[k].preceding_text =
                    JoinSpace(LastN(NonEmptyBefore(idx), DefaultWindow))
            /\ extracted_images[k].following_text =
                    JoinSpace(FirstN(NonEmptyAfter(idx), DefaultWindow))
(***************************************************************************)
(* The floor on the length of a generated content (checked under SpecGen)  *)
(***************************************************************************)
\* some section with the identifier was generated with this content
GeneratedBy(id, content) ==
    IF strategy = "parallel"
    THEN \E p \in DOMAIN tasks :
            /\ AllSections[p].id = id
            /\ Succeeded(p)
            /\ tasks[p].frame.value = content
    ELSE \E p \in DOMAIN visited :
            /\ visited[p].id = id
            /\ visited[p].status = "returned"
            /\ visited[p].value = content

\* C23: in every strategy each value of the dict is the content generated
\* for a section of that identifier and has at least MinContentLength
\* characters: a shorter output leaves no entry, and the dict never holds an
\* empty string.
C23_ContentFloor ==
    \A id \in DOMAIN generated_content :
        /\ generated_content[id] # <<>>
        /\ Len(generated_content[id]) >= MinContentLength
        /\ GeneratedBy(id, generated_content[id])

\* a batch run that fell back: one section kept with exactly
\* MinContentLength characters, another left out for a shorter output
C23_Witness ==
    /\ strategy = "batch"
    /\ gpc = "done"
    /\ \E id \in DOMAIN generated_content :
        Len(generated_content[id]) = MinContentLength
    /\ \E p \in DOMAIN visited :
        /\ visited[p].status = "returned"
        /\ visited[p].value = <<>>
        /\ visited[p].id \notin DOMAIN generated_content
(***************************************************************************)
(* Further claims about the cached process_text (checked under SpecCache)  *)
(***************************************************************************)
\* the non-empty stripped contents a remote reply can carry
PolishedTexts == {Strip(t) : t \in ReplyTexts} \ {<<>>}

\* C24: a call of process_text on a non-blank text never raises, and what it
\* returns is never empty: it is the non-empty polished text or the trimmed
\* raw text, whatever the remote call did.
C24_NeverRaisesNeverEmpty ==
    (call.state # "none" /\ Strip(call.text) # <<>> /\ ~call.hit)
    => /\ call.state # "raised"
       /\ (call.state = "returned"
           => /\ call.result # <<>>
              /\ call.result \in PolishedTexts \cup {Strip(call.text)})

\* C27: when a miss has completed (compute, store, sweep) the cache holds no
\* expired entry: every entry left would be a live hit for a lookup at the
\* time the sweep used, so the sweep removes exactly what the lookup treats
\* as not live.
C27_SweepLeavesOnlyLiveEntries ==
    (call.state = "returned" /\ ~call.hit)
    => \A feature \in DOMAIN cache : CacheLive(cache, feature, call.current_time)

\* C28: the entry stored on a miss carries the time at which the result is
\* stored, after the wrapped function returned: it is live for every lookup
\* of its feature made less than expire_seconds after the miss returned,
\* however long the computation took.
C28_EntryStampedAtStore ==
    (call.state = "returned" /\ ~call.hit)
    => /\ cache[call.feature][2] = now
       /\ \A d \in 0..(expire_seconds - 1) : CacheLive(cache, call.feature, now + d)

\* C29: the cache is one table for all instances, keyed by the feature of
\* the text only: a call on one instance made less than expire_seconds after
\* a call with the same feature that computed on another instance is a hit;
\* it makes no remote call and returns the result of the other instance,
\* whatever the tones of the two.
C29_CacheSharedAcrossInstances ==
    (/\ call.state # "none"
     /\ call.prev.some
     /\ call.prev.self.name # call.self.name
     /\ call.current_time - call.prev.time < expire_seconds)
    => /\ call.state = "returned"
       /\ call.hit
       /\ call.invoked = 0
       /\ call.remotes = <<>>
       /\ call.result = call.prev.result

\* an instance of one tone is served the polished text another instance of
\* another tone computed for another text of the same feature
C29_Witness ==
    /\ call.state = "returned"
    /\ call.hit
    /\ call.prev.some
    /\ call.prev.self.name # call.self.name
    /\ call.prev.self.tone # call.self.tone
    /\ call.text # call.prev.text
    /\ call.result = <<"P">>
    /\ call.result = call.prev.result

\* the result of the call is the trimmed raw text: process_text degraded
Degraded(text, result) == result = Strip(text) /\ result \notin PolishedTexts

\* C30: a result process_text produced by degrading (the trimmed raw text,
\* after a failed remote call or for an over-length text) is stored like a
\* successful one, and a call of the same feature less than expire_seconds
\* later returns it without a remote call; a call whose computation raised
\* stores nothing and leaves the cache as it was.
C30_FallbackResultsAreCached ==
    /\ []((call.state = "returned" /\ ~call.hit)
            => /\ call.feature \in DOMAIN cache
               /\ cache[call.feature] = <<call.result, call.current_time>>)
    /\ []((/\ call.state # "none"
           /\ call.prev.some
           /\ Degraded(call.prev.text, call.prev.result)
           /\ call.current_time - call.prev.time < expire_seconds)
            => /\ call.state = "returned"
               /\ call.hit
               /\ call.remotes = <<>>
               /\ call.result = call.prev.result)
    /\ [][call'.state = "raised" => cache' = cache]_vars

\* the trimmed text stored after a timeout is served to a later call of the
\* same feature
C30_Witness ==
    /\ call.state = "returned"
    /\ call.hit
    /\ call.prev.some
    /\ Degraded(call.prev.text, call.prev.result)
    /\ Len(call.prev.text) <= max_text_length
    /\ call.text # call.prev.text
    /\ call.result = call.prev.result

\* the trimmed over-length text is served from the cache
C30_WitnessOverLength ==
    /\ call.state = "returned"
    /\ call.hit
    /\ Len(Strip(call.text)) > max_text_length
    /\ call.result = Strip(call.text)
(***************************************************************************)
(* Termination of the parallel strategy (checked under SpecParallelFair)   *)
(***************************************************************************)
\* every section of the flattened tree has one future, which ran to its end
\* within max_retries invocations and was collected
EveryTaskCompleted ==
    /\ Len(tasks) = Len(Flatten(template.sections))
    /\ \A p \in DOMAIN tasks :
        /\ tasks[p].state = "collected"
        /\ tasks[p].frame.status \in {"returned", "raised"}
        /\ tasks[p].frame.invocations \in 1..max_retries
        /\ tasks[p].result.section_id = Flatten(template.sections)[p].id

\* C25: when every remote call returns or fails, a run of
\* generate_from_template_parallel returns, and at its return every section
\* of the flattened tree has had its one task run to completion, after at
\* most max_retries invocations each, whatever happened to the other tasks;
\* no task ever makes more than max_retries invocations.
C25_ParallelRunCompletes ==
    /\ [](\A p \in DOMAIN tasks : tasks[p].frame.invocations <= max_retries)
    /\ []((strategy = "parallel" /\ gpc = "done") => EveryTaskCompleted)
    /\ (strategy = "parallel" => <>(gpc = "done" /\ EveryTaskCompleted))

\* a returned parallel run in which one task raised at its first invocation,
\* one exhausted its retries and one succeeded
C25_Witness ==
    /\ strategy = "parallel"
    /\ gpc = "done"
    /\ \E p, q, r \in DOMAIN tasks :
        /\ tasks[p].frame.status = "raised"
        /\ tasks[p].frame.invocations = 1
        /\ tasks[q].frame.invocations = max_retries
        /\ tasks[q].result.error # "None"
        /\ Succeeded(r)
        /\ p < r
        /\ q < r
====
